---- MODULE Spec2Model ----
(***************************************************************************)
(* Model of the Amplitude acquisition layer of data-tracking-plan:         *)
(*   parsers/amplitude_parser.py   AmplitudeParser (API mode, TTL cache)   *)
(*   services/amplitude_client.py  AmplitudeAPIClient._get (retry)         *)
(*   services/parser_manager.py    ParserManager (mode fallback)           *)
(* Each part has its own specification (SpecCache and SpecConc, SpecGet,   *)
(* SpecMgr); the variables of the other parts keep their initial values.   *)
(***************************************************************************)
EXTENDS Integers, Sequences, FiniteSets, TLC

VARIABLES
    \* ---- AmplitudeParser in API mode -------------------------------
    now,          \* time.time(), in whole seconds
    cache_ttl,    \* self._cache_ttl
    srvEvents,    \* event_type of each event the Taxonomy API lists
    adapter,      \* "new" | "constructing" | "ready" | "failed"
    cache,        \* self._cache : a dict, as a function from its keys
    th,           \* per thread of control: position and locals
    cacheWr,      \* ghost: for each key of self._cache, the thread whose refetch wrote it
    snapMeta,     \* ghost: what the reader did during the refetch that wrote last
    lastBuilt,    \* ghost: the dict built by the refetch that wrote last
    \* ---- AmplitudeAPIClient._get -----------------------------------
    req,          \* one call of _get: position, locals, what the server saw
    \* ---- ParserManager ---------------------------------------------
    env,          \* Config and what constructing each reader would do now
    mgr,          \* ParserManager: _instance, _initialized, parsers
    loadEnv,      \* ghost: env as it was when _load_parsers ran
    ret,          \* what the last call on the manager returned
    \* ---- routes, and the adapter's query methods as functions -------
    resp,         \* the response to the last HTTP request served
    data,         \* the dataset a query method works on
    out           \* what the query method returned

cacheVars == <<now, cache_ttl, srvEvents, adapter, cache, th,
               cacheWr, snapMeta, lastBuilt>>

getVars == <<req>>

mgrVars == <<env, mgr, loadEnv, ret>>

auxVars == <<resp, data, out>>

vars == <<cacheVars, getVars, mgrVars, auxVars>>

-----------------------------------------------------------------------------
(* Bounds of the model *)

MaxEvents == 2     \* events the API lists
MaxConcEvents == 1 \* events the API lists when two requests run concurrently
StartTime == 1     \* clock value when the process starts
MaxTime == 3       \* the clock stops here
MaxTTL == 2        \* cache_ttl ranges over 0..MaxTTL
MaxCtorCalls == 2      \* ParserManager() constructions in one run
MaxRawEvents == 2  \* event records in a reader response given field by field
MaxTextLen == 3    \* characters in a volume or query-count cell of the CSV
MaxCsvRows == 3    \* property rows of the CSV
MaxSnapshotEvents == 3    \* events of a snapshot of properties_by_event

Ctor == 0                      \* the thread running AmplitudeParser.__init__
Requests == {1, 2}             \* request threads
Threads == {Ctor} \cup Requests

EventNames == <<"login", "purchase", "signup">>

Methods == {"get_events_list", "get_events_summary", "get_properties_summary",
            "get_properties_by_event", "get_unique_properties_list",
            "get_platform_overview"}

-----------------------------------------------------------------------------
(* Python dicts as functions *)

EmptyDict == [k \in {} |-> 0]

\* d.get(k, default)
DictGet(d, k, default) == IF k \in DOMAIN d THEN d[k] ELSE default

\* d[k] = v
DictSet(d, k, v) == [x \in (DOMAIN d) \cup {k} |-> IF x = k THEN v ELSE d[x]]

CacheKeys == {"_timestamp", "events", "categories", "properties_by_event"}

-----------------------------------------------------------------------------
(* The reader (AmplitudeAPIClient) as seen by the adapter *)

\* get_events(show_deleted=True): one record per event the API lists
get_events ==
    [i \in 1..Len(srvEvents) |-> [event_type |-> srvEvents[i]]]

\* get_categories()
get_categories == <<[id |-> 1, name |-> "Onboarding"]>>

\* get_event_properties(event_name); "purchase" has no properties
get_event_properties(e) ==
    IF e = "purchase" THEN <<>> ELSE <<[event_property |-> e]>>

\* Event lists the API may serve: at most MaxEvents records, event types
\* unique (taken in the order of EventNames); a record may lack its
\* event_type ("" stands for the missing or empty field).
Named(s) == SelectSeq(s, LAMBDA x : x # "")

EventLists(max) ==
    {s \in UNION {[1..n -> {EventNames[k] : k \in 1..Len(EventNames)} \cup {""}] :
                    n \in 0..max} :
        Named(s) = SubSeq(EventNames, 1, Len(Named(s)))}

-----------------------------------------------------------------------------
(* AmplitudeParser: cache validity and the refetch *)

\* _is_cache_valid
is_cache_valid(c, t, ttl) == (t - DictGet(c, "_timestamp", 0)) < ttl

\* categories_by_id = {c["id"]: c["name"] for c in categories_list}
\* (a later record with the same id overwrites an earlier one)
LastWithId(lst, i) ==
    CHOOSE j \in 1..Len(lst) :
        lst[j].id = i /\ \A k \in (j+1)..Len(lst) : lst[k].id # i

categories_by_id(lst) ==
    [i \in {lst[j].id : j \in 1..Len(lst)} |-> lst[LastWithId(lst, i)].name]

on_property_failure_skip(props, e) == props

\* the except branch of the per-event fetch: props_by_event[event_name] = []
on_property_failure(props, e) == DictSet(props, e, <<>>)

\* lines 89-99: the loop over raw_events from index i on; fails holds the
\* event names whose get_event_properties call raises
RECURSIVE props_loop(_, _, _, _)
props_loop(raw_events, i, props, fails) ==
    IF i > Len(raw_events) THEN props
    ELSE LET event_name == raw_events[i].event_type IN
         IF event_name = ""
         THEN props_loop(raw_events, i + 1, props, fails)
         ELSE IF event_name \in fails
         THEN props_loop(raw_events, i + 1,
                         on_property_failure(props, event_name), fails)
         ELSE props_loop(raw_events, i + 1,
                         DictSet(props, event_name,
                                 get_event_properties(event_name)), fails)

\* the event names the loop calls get_event_properties for
FetchedNames(raw_events) ==
    {raw_events[i].event_type : i \in 1..Len(raw_events)} \ {""}

\* the dict assigned to self._cache by lines 101-106
build_cache(t, raw_events, cats, props) ==
    [k \in CacheKeys |->
        CASE k = "_timestamp" -> t
          [] k = "events" -> raw_events
          [] k = "categories" -> cats
          [] k = "properties_by_event" -> props]

assign_cache_keep_categories(old, new) ==
    [k \in DOMAIN new |->
        IF k = "categories" /\ k \in DOMAIN old THEN old[k] ELSE new[k]]

\* self._cache = {...}: the attribute is rebound to the new dict
assign_cache(old, new) == new

-----------------------------------------------------------------------------
(* AmplitudeAPIClient._get over a requests Session.  The Session mounts     *)
(* HTTPAdapter(max_retries=Retry(total=3, backoff_factor=1,                *)
(* status_forcelist=[429, 500, 502, 503, 504], allowed_methods=["GET"]))   *)
(* on "https://" only.  Retry keeps its default raise_on_status=True: when *)
(* a response with a status of the forcelist arrives and no retry is left, *)
(* session.get raises requests.exceptions.RetryError instead of returning  *)
(* the response.  An "http://" URL goes through the default adapter, which *)
(* does not retry.                                                         *)

RetryTotal == 3            \* Retry(total=3)
DefaultRetryAfter == 5     \* response.headers.get("Retry-After", "5")

status_forcelist == {429, 500, 502, 503, 504}

\* what the server may answer: a status, a Retry-After header (0: absent),
\* and, in the body, the envelope's success flag
Responses ==
    [status : {200, 404, 429, 500}, retry_after : {0, 2}, success : BOOLEAN]

\* the retry budget of one session.get call
max_retries(scheme) == IF scheme = "https" THEN RetryTotal ELSE 0

\* does the transport retry on this response?  (Retry.is_retry: a GET whose
\* status is in the forcelist of the mounted adapter)
is_retry(scheme, r) == scheme = "https" /\ r.status \in status_forcelist

\* response.ok
ok(r) == r.status < 400

\* int(response.headers.get("Retry-After", "5"))
retry_after(r) == IF r.retry_after = 0 THEN DefaultRetryAfter ELSE r.retry_after

NoResponse == [status |-> 0, retry_after |-> 0, success |-> FALSE]

ReqIdle(scheme) ==
    [pc |-> "idle", scheme |-> scheme, attempt |-> 0, total |-> 0,
     contacts |-> 0, response |-> NoResponse, slept |-> <<>>,
     error |-> "none", only429 |-> TRUE]

-----------------------------------------------------------------------------
(* ParserManager: what it loads depends on Config and on whether each      *)
(* reader or adapter can be constructed when _load_parsers runs.           *)

ParserKeys == {"amplitude", "insider", "gtm_server", "gtm_client"}

Envs ==
    [mode : {"api", "csv"},            \* Config.AMPLITUDE_SOURCE_MODE
     api_key : {"", "key"},            \* Config.AMPLITUDE_API_KEY
     secret_key : {"", "secret"},      \* Config.AMPLITUDE_SECRET_KEY
     clientOk : BOOLEAN,               \* AmplitudeAPIClient(...) does not raise
     api : {"ok", "events_fail", "categories_fail"},   \* the Taxonomy API
     csvOk : BOOLEAN,                  \* Config.AMPLITUDE_CSV loads
     insiderOk : BOOLEAN,              \* Config.INSIDER_JSON loads
     gtmServerOk : BOOLEAN,            \* Config.GTM_SERVER_JSON loads
     gtmClientOk : BOOLEAN]            \* Config.GTM_CLIENT_JSON loads

AllGood ==
    [mode |-> "api", api_key |-> "key", secret_key |-> "secret",
     clientOk |-> TRUE, api |-> "ok", csvOk |-> TRUE, insiderOk |-> TRUE,
     gtmServerOk |-> TRUE, gtmClientOk |-> TRUE]

NoParsers == [k \in ParserKeys |-> "None"]

\* before services.parser_manager is imported
NoManager ==
    [instance |-> 0, created |-> 0, initialized |-> FALSE, parsers |-> NoParsers,
     loads |-> 0, ctorCalls |-> 0, ctorEnv |-> AllGood, raised |-> FALSE,
     apiExc |-> "none"]

-----------------------------------------------------------------------------
(* Threads of control.  A refetch touches shared state (the cache, the     *)
(* clock) at its validity check and at its final assignment only; the      *)
(* reader calls in between work on locals and are taken in one step.       *)

Idle ==
    [pc |-> "idle", plan |-> <<>>,
     raw_events |-> <<>>, categories |-> EmptyDict, props |-> EmptyDict,
     failed |-> {},
     stale0 |-> "unset", refetches |-> 0, calls |-> 0, seen |-> <<>>,
     raced |-> FALSE]

\* the internal helpers a public query method runs, in order
Plan(m) ==
    CASE m \in {"get_events_list", "get_events_summary"} -> <<"events">>
      [] m \in {"get_properties_summary", "get_properties_by_event",
                "get_unique_properties_list"} -> <<"props">>
      [] m = "get_platform_overview" -> <<"events", "props">>

\* where control goes when _fetch_api_data returns
AfterFetch(t) == IF t = Ctor THEN "done" ELSE "read"

NoMeta == [by |-> -1, failed |-> {}]

\* no request served, no query method applied
NoResp ==
    [path |-> "", status |-> 0, body |-> "", calls |-> 0, raised |-> FALSE,
     stale |-> FALSE, api |-> "ok", prev |-> 0]

InitAux == resp = NoResp /\ data = <<>> /\ out = <<>>

InitAdapter ==
    /\ now = StartTime
    /\ cache_ttl \in 0..MaxTTL
    /\ adapter = "new"
    /\ cache = EmptyDict
    /\ th = [t \in Threads |-> Idle]
    /\ cacheWr = EmptyDict
    /\ snapMeta = NoMeta
    /\ lastBuilt = EmptyDict

InitCache ==
    /\ InitAdapter /\ srvEvents \in EventLists(MaxEvents)
    /\ req = ReqIdle("https")
    /\ env = AllGood /\ mgr = NoManager /\ loadEnv = AllGood /\ ret = "None"
    /\ InitAux

InitConc ==
    /\ InitAdapter /\ srvEvents \in EventLists(MaxConcEvents)
    /\ req = ReqIdle("https")
    /\ env = AllGood /\ mgr = NoManager /\ loadEnv = AllGood /\ ret = "None"
    /\ InitAux

\* a clock with a periodic refresh task: when the entry has expired at the
\* new time, the task refetches and replaces it
TickRefreshing ==
    /\ now < MaxTime
    /\ now' = now + 1
    /\ IF adapter = "ready" /\ ~is_cache_valid(cache, now + 1, cache_ttl)
       THEN /\ cache' = assign_cache(cache,
                           build_cache(now + 1, get_events,
                                       categories_by_id(get_categories),
                                       props_loop(get_events, 1, EmptyDict, {})))
            /\ cacheWr' = assign_cache(cacheWr, [k \in CacheKeys |-> Ctor])
       ELSE UNCHANGED <<cache, cacheWr>>
    /\ UNCHANGED <<cache_ttl, srvEvents, adapter, th, snapMeta, lastBuilt>>
    /\ UNCHANGED <<getVars, mgrVars, auxVars>>

\* time passes
Tick ==
    /\ now < MaxTime
    /\ now' = now + 1
    /\ UNCHANGED <<cache_ttl, srvEvents, adapter, cache, th,
                   cacheWr, snapMeta, lastBuilt>>
    /\ UNCHANGED <<getVars, mgrVars, auxVars>>

\* AmplitudeParser(api_client=client, cache_ttl=ttl), up to the call of
\* _fetch_api_data
Construct ==
    /\ adapter = "new"
    /\ adapter' = "constructing"
    /\ cache' = EmptyDict
    /\ th' = [th EXCEPT ![Ctor] = [Idle EXCEPT !.pc = "fetch"]]
    /\ UNCHANGED <<now, cache_ttl, srvEvents, cacheWr, snapMeta, lastBuilt>>
    /\ UNCHANGED <<getVars, mgrVars, auxVars>>

\* a request thread calls a public query method (a new request takes the
\* lowest free thread)
CallQuery(t, m) ==
    /\ adapter = "ready"
    /\ th[t].pc = "idle"
    /\ \A u \in Requests : u < t => th[u].pc # "idle"
    /\ th' = [th EXCEPT ![t] = [Idle EXCEPT !.pc = "ensure", !.plan = Plan(m)]]
    /\ UNCHANGED <<now, cache_ttl, srvEvents, adapter, cache,
                   cacheWr, snapMeta, lastBuilt>>
    /\ UNCHANGED <<getVars, mgrVars, auxVars>>

\* _ensure_api_data: if not self._is_cache_valid(): self._fetch_api_data()
Ensure(t) ==
    /\ th[t].pc = "ensure"
    /\ LET valid == is_cache_valid(cache, now, cache_ttl)
           s0 == IF th[t].stale0 # "unset" THEN th[t].stale0
                 ELSE IF "_timestamp" \notin DOMAIN cache THEN "nofetch"
                 ELSE IF valid THEN "fresh" ELSE "stale"
       IN th' = [th EXCEPT ![t] = [@ EXCEPT
                    !.pc = IF valid THEN "read" ELSE "fetch",
                    !.stale0 = s0]]
    /\ UNCHANGED <<now, cache_ttl, srvEvents, adapter, cache,
                   cacheWr, snapMeta, lastBuilt>>
    /\ UNCHANGED <<getVars, mgrVars, auxVars>>

\* _fetch_api_data, lines 79-99: return if the cache is valid; otherwise
\* get_events, get_categories and the per-event property loop.  An exception
\* of get_events or get_categories leaves the method (and the query, or
\* __init__); one of get_event_properties is caught.
Fetch(t) ==
    /\ th[t].pc = "fetch"
    /\ IF is_cache_valid(cache, now, cache_ttl)
       THEN /\ th' = [th EXCEPT ![t] = [@ EXCEPT !.pc = AfterFetch(t)]]
            /\ adapter' = IF t = Ctor THEN "ready" ELSE adapter
       ELSE \/ \E fails \in SUBSET FetchedNames(get_events) :
                 /\ th' = [th EXCEPT ![t] = [@ EXCEPT
                              !.pc = "store",
                              !.raced = @ \/ \E u \in Requests \ {t} :
                                                  th[u].pc = "store",
                              !.refetches = @ + 1,
                              !.calls = @ + 2 + Cardinality(FetchedNames(get_events)),
                              !.raw_events = get_events,
                              !.categories = categories_by_id(get_categories),
                              !.props = props_loop(get_events, 1, EmptyDict, fails),
                              !.failed = fails]]
                 /\ UNCHANGED adapter
            \/ \E made \in {1, 2} :    \* get_events (1) or get_categories (2) raises
                 /\ th' = [th EXCEPT ![t] = [@ EXCEPT
                              !.pc = "raised",
                              !.refetches = @ + 1, !.calls = @ + made]]
                 /\ adapter' = IF t = Ctor THEN "failed" ELSE adapter
    /\ UNCHANGED <<now, cache_ttl, srvEvents, cache, cacheWr, snapMeta, lastBuilt>>
    /\ UNCHANGED <<getVars, mgrVars, auxVars>>

\* lines 101-106: self._cache = {"_timestamp": time.time(), ...}
Store(t) ==
    /\ th[t].pc = "store"
    /\ LET built == build_cache(now, th[t].raw_events, th[t].categories,
                                th[t].props)
       IN /\ cache' = assign_cache(cache, built)
          /\ cacheWr' = assign_cache(cacheWr, [k \in CacheKeys |-> t])
          /\ lastBuilt' = built
    /\ snapMeta' = [by |-> t, failed |-> th[t].failed]
    /\ th' = [th EXCEPT ![t] = [@ EXCEPT
                !.pc = AfterFetch(t), !.raw_events = <<>>,
                !.categories = EmptyDict, !.props = EmptyDict, !.failed = {}]]
    /\ adapter' = IF t = Ctor THEN "ready" ELSE adapter
    /\ UNCHANGED <<now, cache_ttl, srvEvents>>
    /\ UNCHANGED <<getVars, mgrVars, auxVars>>

\* _api_events_list / _api_properties_by_event after _ensure_api_data: the
\* one read of self._cache the helper makes
Read(t) ==
    /\ th[t].pc = "read"
    /\ LET rest == Tail(th[t].plan) IN
       th' = [th EXCEPT ![t] = [@ EXCEPT
                !.seen = Append(@, [helper |-> Head(th[t].plan),
                                    ts |-> DictGet(cache, "_timestamp", 0),
                                    wr |-> {cacheWr[k] : k \in DOMAIN cacheWr}]),
                !.plan = rest,
                !.pc = IF rest = <<>> THEN "done" ELSE "ensure"]]
    /\ UNCHANGED <<now, cache_ttl, srvEvents, adapter, cache,
                   cacheWr, snapMeta, lastBuilt>>
    /\ UNCHANGED <<getVars, mgrVars, auxVars>>

\* the query returns, or its exception reaches the caller
Return(t) ==
    /\ th[t].pc \in {"done", "raised"}
    /\ th' = [th EXCEPT ![t] = Idle]
    /\ UNCHANGED <<now, cache_ttl, srvEvents, adapter, cache,
                   cacheWr, snapMeta, lastBuilt>>
    /\ UNCHANGED <<getVars, mgrVars, auxVars>>

\* one request at a time
NextCache ==
    \/ Tick
    \/ Construct
    \/ Fetch(Ctor)
    \/ Store(Ctor)
    \/ \E m \in Methods : CallQuery(1, m)
    \/ Ensure(1)
    \/ Fetch(1)
    \/ Store(1)
    \/ Read(1)
    \/ Return(1)

SpecCache == InitCache /\ [][NextCache]_vars

\* two requests at a time
NextConc ==
    \/ Tick
    \/ Construct
    \/ Fetch(Ctor)
    \/ Store(Ctor)
    \/ \E t \in Requests, m \in Methods : CallQuery(t, m)
    \/ \E t \in Requests : Ensure(t)
    \/ \E t \in Requests : Fetch(t)
    \/ \E t \in Requests : Store(t)
    \/ \E t \in Requests : Read(t)
    \/ \E t \in Requests : Return(t)

SpecConc == InitConc /\ [][NextConc]_vars

-----------------------------------------------------------------------------
(* One call of AmplitudeAPIClient._get *)

InitGet ==
    /\ InitAdapter /\ srvEvents = <<>>
    /\ req \in {ReqIdle(scheme) : scheme \in {"https", "http"}}
    /\ env = AllGood /\ mgr = NoManager /\ loadEnv = AllGood /\ ret = "None"
    /\ InitAux

\* _get is called: line 67 starts the first session.get
GetCall ==
    /\ req.pc = "idle"
    /\ req' = [ReqIdle(req.scheme) EXCEPT
                 !.pc = "send", !.attempt = 1, !.total = max_retries(req.scheme)]
    /\ UNCHANGED <<cacheVars, mgrVars, auxVars>>

\* inside session.get: the server is contacted once and answers r; the
\* transport retries, gives up with RetryError, or hands the response back
Contact(r) ==
    /\ req.pc = "send"
    /\ LET seen429 == req.only429 /\ r.status = 429 IN
       IF is_retry(req.scheme, r)
       THEN IF req.total > 0
            THEN req' = [req EXCEPT !.contacts = @ + 1, !.only429 = seen429,
                                    !.total = @ - 1]
            ELSE req' = [req EXCEPT !.contacts = @ + 1, !.only429 = seen429,
                                    !.pc = "raised", !.error = "RetryError"]
       ELSE req' = [req EXCEPT !.contacts = @ + 1, !.only429 = seen429,
                               !.pc = "got", !.response = r]
    /\ UNCHANGED <<cacheVars, mgrVars, auxVars>>

\* lines 71-87, on the response session.get returned
Handle ==
    /\ req.pc = "got"
    /\ IF req.attempt = 1 /\ req.response.status = 429
       THEN \* sleep Retry-After seconds, then the second session.get
            req' = [req EXCEPT !.slept = Append(@, retry_after(req.response)),
                               !.attempt = 2, !.pc = "send",
                               !.total = max_retries(req.scheme)]
       ELSE IF ~ok(req.response) \/ ~req.response.success
       THEN req' = [req EXCEPT !.pc = "raised", !.error = "AmplitudeAPIError"]
       ELSE req' = [req EXCEPT !.pc = "returned"]
    /\ UNCHANGED <<cacheVars, mgrVars, auxVars>>

\* the caller has the data, or the exception
GetDone ==
    /\ req.pc \in {"raised", "returned"}
    /\ req' = ReqIdle(req.scheme)
    /\ UNCHANGED <<cacheVars, mgrVars, auxVars>>

NextGet ==
    \/ GetCall
    \/ \E r \in Responses : Contact(r)
    \/ Handle
    \/ GetDone

SpecGet == InitGet /\ [][NextGet]_vars

\* C4: against a server that always answers 429, one call of _get contacts
\* the server at most 1 + 3 = 4 times and then raises AmplitudeAPIError.
C4_RetryBound ==
    (req.pc = "raised" /\ req.only429) =>
        /\ req.contacts <= 1 + RetryTotal
        /\ req.error = "AmplitudeAPIError"

-----------------------------------------------------------------------------
(* ParserManager: the singleton, its one load, and request-time use *)

\* AmplitudeAPIClient(...) then AmplitudeParser(api_client=client,
\* cache_ttl=...): which of the two raised, if any, and the cache the adapter
\* is left with
api_parser(e, t, ttl, fails) ==
    IF ~e.clientOk THEN [exc |-> "client", cache |-> EmptyDict]
    ELSE IF is_cache_valid(EmptyDict, t, ttl)
    THEN [exc |-> "none", cache |-> EmptyDict]
    ELSE IF e.api # "ok" THEN [exc |-> "adapter", cache |-> EmptyDict]
    ELSE [exc |-> "none",
          cache |-> assign_cache(EmptyDict,
                       build_cache(t, get_events, categories_by_id(get_categories),
                                   props_loop(get_events, 1, EmptyDict, fails)))]

\* lines 62-69: AmplitudeParser(file_path=...) inside its own try/except
csv_fallback(e) ==
    IF e.csvOk THEN [value |-> "csv", raised |-> FALSE]
    ELSE [value |-> "None", raised |-> FALSE]

init_amplitude_no_fallback(e, t, ttl, fails) ==
    LET wantApi == e.mode = "api" /\ e.api_key # "" /\ e.secret_key # ""
        a == api_parser(e, t, ttl, fails)
    IN IF wantApi
       THEN [value |-> IF a.exc = "none" THEN "api" ELSE "None", raised |-> FALSE,
             apiExc |-> a.exc, cache |-> a.cache]
       ELSE [value |-> csv_fallback(e).value, raised |-> csv_fallback(e).raised,
             apiExc |-> "none", cache |-> EmptyDict]

\* _init_amplitude
init_amplitude(e, t, ttl, fails) ==
    LET wantApi == e.mode = "api" /\ e.api_key # "" /\ e.secret_key # ""
        a == api_parser(e, t, ttl, fails)
    IN IF wantApi /\ a.exc = "none"
       THEN [value |-> "api", raised |-> FALSE, apiExc |-> "none",
             cache |-> a.cache]
       ELSE [value |-> csv_fallback(e).value, raised |-> csv_fallback(e).raised,
             apiExc |-> IF wantApi THEN a.exc ELSE "none", cache |-> EmptyDict]

init_parser_uncaught(loads_ok, parser_class) ==
    IF loads_ok THEN [value |-> parser_class, raised |-> FALSE]
    ELSE [value |-> "None", raised |-> TRUE]

\* _init_parser: parser_class(str(file_path)) inside try/except Exception
init_parser(loads_ok, parser_class) ==
    IF loads_ok THEN [value |-> parser_class, raised |-> FALSE]
    ELSE [value |-> "None", raised |-> FALSE]

\* _load_parsers: the four initialisations in order; an exception that
\* escaped one of them would skip the rest, whose entries stay None
load_parsers(e, t, ttl, fails) ==
    LET amp == init_amplitude(e, t, ttl, fails)
        ins == init_parser(e.insiderOk, "InsiderParser")
        srv == init_parser(e.gtmServerOk, "GTMParser")
        cli == init_parser(e.gtmClientOk, "GTMParser")
        r1 == amp.raised
        r2 == r1 \/ ins.raised
        r3 == r2 \/ srv.raised
    IN [parsers |-> [k \in ParserKeys |->
                       CASE k = "amplitude" -> amp.value
                         [] k = "insider" -> IF r1 THEN "None" ELSE ins.value
                         [] k = "gtm_server" -> IF r2 THEN "None" ELSE srv.value
                         [] k = "gtm_client" -> IF r3 THEN "None" ELSE cli.value],
        raised |-> r3 \/ cli.raised,
        apiExc |-> amp.apiExc,
        cache |-> amp.cache]

never_initialized(m) == FALSE

\* __init__, line 21: if self._initialized: return
already_initialized(m) == m.initialized

\* __new__: the class keeps one instance
new_instance(m) ==
    IF m.instance = 0
    THEN [m EXCEPT !.instance = 1, !.created = @ + 1, !.initialized = FALSE]
    ELSE m

InitMgr ==
    /\ InitAdapter /\ srvEvents = <<EventNames[1]>>
    /\ req = ReqIdle("https")
    /\ env \in Envs /\ loadEnv = env
    /\ mgr = NoManager /\ ret = "None"
    /\ InitAux

\* ParserManager(): __new__, then __init__ (line 90 at import, and any later
\* construction)
ParserManagerCall ==
    /\ mgr.ctorCalls < MaxCtorCalls
    /\ LET m == [new_instance(mgr) EXCEPT !.ctorCalls = @ + 1, !.ctorEnv = env] IN
       IF already_initialized(m)
       THEN /\ mgr' = m
            /\ UNCHANGED <<loadEnv, adapter, cache, cacheWr>>
       ELSE \E fails \in SUBSET FetchedNames(get_events) :
              LET l == load_parsers(env, now, cache_ttl, fails) IN
              /\ mgr' = [m EXCEPT !.initialized = TRUE, !.parsers = l.parsers,
                                  !.loads = @ + 1, !.raised = l.raised,
                                  !.apiExc = l.apiExc]
              /\ loadEnv' = env
              /\ adapter' = IF l.parsers["amplitude"] = "api" THEN "ready" ELSE "new"
              /\ cache' = l.cache
              /\ cacheWr' = [k \in DOMAIN l.cache |-> Ctor]
    /\ ret' = "instance"
    /\ UNCHANGED <<now, cache_ttl, srvEvents, th, snapMeta, lastBuilt, env, getVars, auxVars>>

\* get_parser(key): self.parsers.get(key)
GetParser(key) ==
    /\ mgr.initialized
    /\ ret' = DictGet(mgr.parsers, key, "None")
    /\ UNCHANGED <<cacheVars, getVars, auxVars, env, mgr, loadEnv>>

\* get_all_parsers(): the dict itself
GetAllParsers ==
    /\ mgr.initialized
    /\ ret' = "parsers"
    /\ UNCHANGED <<cacheVars, getVars, auxVars, env, mgr, loadEnv>>

\* a route runs a query on a registered adapter; on the API-mode adapter it
\* goes through _ensure_api_data, which refetches (or raises) when stale
Query(key) ==
    /\ mgr.initialized
    /\ mgr.parsers[key] # "None"
    /\ IF mgr.parsers[key] = "api" /\ ~is_cache_valid(cache, now, cache_ttl)
       THEN IF env.api = "ok"
            THEN \E fails \in SUBSET FetchedNames(get_events) :
                   /\ cache' = assign_cache(cache,
                                  build_cache(now, get_events,
                                      categories_by_id(get_categories),
                                      props_loop(get_events, 1, EmptyDict, fails)))
                   /\ cacheWr' = assign_cache(cacheWr, [k \in CacheKeys |-> 1])
                   /\ ret' = "result"
            ELSE /\ ret' = "error"
                 /\ UNCHANGED <<cache, cacheWr>>
       ELSE /\ ret' = "result"
            /\ UNCHANGED <<cache, cacheWr>>
    /\ UNCHANGED <<now, cache_ttl, srvEvents, adapter, th, snapMeta, lastBuilt,
                   getVars, auxVars, env, mgr, loadEnv>>

\* the world changes after startup: the API goes down, or everything that
\* was broken is repaired
EnvChange(e) ==
    /\ mgr.initialized
    /\ e # env
    /\ env' = e
    /\ UNCHANGED <<cacheVars, getVars, auxVars, mgr, loadEnv, ret>>

NextMgr ==
    \/ ParserManagerCall
    \/ \E key \in ParserKeys \cup {"mixpanel"} : GetParser(key)
    \/ GetAllParsers
    \/ \E key \in ParserKeys : Query(key)
    \/ \E e \in {AllGood, [env EXCEPT !.api = "events_fail"]} : EnvChange(e)

SpecMgr == InitMgr /\ [][NextMgr]_vars

-----------------------------------------------------------------------------
(* Claims about the cache of the API-mode adapter *)

\* the thread record of a request whose query has returned normally
Finished(t) == th[t].pc = "done"

\* C1: a query made less than TTL seconds after the last fetch (as found by
\* the query's first validity check) makes no reader call at all, and a
\* query made when the TTL has passed triggers exactly one full refetch.
C1_CacheStaleness ==
    \A t \in Requests :
        Finished(t) =>
            /\ th[t].stale0 = "fresh" => th[t].calls = 0
            /\ th[t].stale0 = "stale" => th[t].refetches = 1

\* C2: an API-mode adapter never finishes construction, and never answers a
\* query, with an empty cache entry, whatever the TTL.
C2_NoSnapshotForcesRefetch ==
    /\ adapter = "ready" => cache # EmptyDict
    /\ \A t \in Requests : \A k \in 1..Len(th[t].seen) : th[t].seen[k].wr # {}

\* C3: when exactly one per-event property fetch failed during the refetch
\* that wrote the cache, the snapshot holds all N events, the failed event
\* has the empty property list and every other named event has exactly the
\* list the reader returned for it.
C3_PartialFailureIsolation ==
    (snapMeta.by # -1 /\ Cardinality(snapMeta.failed) = 1) =>
        /\ cache["events"] = get_events
        /\ \A i \in 1..Len(srvEvents) :
              LET e == srvEvents[i] IN
              e # "" =>
                /\ e \in DOMAIN cache["properties_by_event"]
                /\ e \in snapMeta.failed
                      => cache["properties_by_event"][e] = <<>>
                /\ e \notin snapMeta.failed
                      => cache["properties_by_event"][e] = get_event_properties(e)

\* C3 witness: a stored snapshot of at least two events where one property
\* fetch failed and another event kept a non-empty property list
C3_Witness ==
    /\ snapMeta.by # -1
    /\ Cardinality(snapMeta.failed) = 1
    /\ Len(cache["events"]) >= 2
    /\ \E e \in DOMAIN cache["properties_by_event"] :
          e \notin snapMeta.failed /\ cache["properties_by_event"][e] # <<>>

\* C5: whatever a query reads on a constructed adapter, and the cache of a
\* constructed adapter itself, is one complete snapshot: all four keys are
\* present and were written by one refetch.
C5_SnapshotAtomicity ==
    /\ adapter = "ready" =>
          /\ DOMAIN cache = CacheKeys
          /\ Cardinality({cacheWr[k] : k \in DOMAIN cacheWr}) = 1
    /\ \A t \in Requests : \A k \in 1..Len(th[t].seen) :
          Cardinality(th[t].seen[k].wr) = 1

C10_ConstructionFailsOrCacheComplete ==
    /\ th[Ctor].pc = "raised" => adapter = "failed"
    /\ adapter = "ready" => DOMAIN cache = CacheKeys

-----------------------------------------------------------------------------
(* Claims about the parser manager *)

\* C7: when API mode was requested with both credentials and constructing
\* the API client or the API-mode adapter raised, the registered Amplitude
\* adapter is the file-mode one if the CSV loads, and null only if the
\* file-mode construction failed too.
C7_ModeFallback ==
    (mgr.initialized /\ mgr.apiExc # "none") =>
        /\ loadEnv.mode = "api" /\ loadEnv.api_key # "" /\ loadEnv.secret_key # ""
        /\ mgr.parsers["amplitude"] = IF loadEnv.csvOk THEN "csv" ELSE "None"

\* C7 witness: the API-mode adapter's constructor raised (its initial fetch
\* failed) and the manager registered the file-mode adapter
C7_Witness ==
    /\ mgr.initialized
    /\ mgr.apiExc = "adapter"
    /\ mgr.parsers["amplitude"] = "csv"

\* C8: once the manager is initialised, no step (another ParserManager(),
\* get_parser, get_all_parsers, a query, a change of the environment)
\* replaces the instance, reloads the parsers or changes a registered
\* adapter.
C8_DecidedOnceAtStartup ==
    [][mgr.initialized =>
          /\ mgr'.initialized
          /\ mgr'.instance = mgr.instance
          /\ mgr'.created = mgr.created
          /\ mgr'.loads = mgr.loads
          /\ mgr'.parsers = mgr.parsers
          /\ loadEnv' = loadEnv]_vars

\* C8 witness: Amplitude fell back to file mode at startup because the API
\* was down; the API has recovered since, ParserManager() was constructed
\* again and a query has been answered, still by the file-mode adapter
C8_Witness ==
    /\ mgr.ctorCalls >= 2
    /\ mgr.ctorEnv = AllGood
    /\ env = AllGood
    /\ mgr.apiExc = "adapter"
    /\ mgr.parsers["amplitude"] = "csv"
    /\ mgr.loads = 1
    /\ ret = "result"

\* C9: initialising the manager never raises, and each source's entry is an
\* adapter exactly when that source's own construction succeeds, whatever
\* happened to the other three sources.
C9_InitNeverRaises ==
    mgr.initialized =>
        /\ ~mgr.raised
        /\ mgr.parsers["amplitude"] \in {"api", "csv", "None"}
        /\ mgr.parsers["amplitude"] = "csv" => loadEnv.csvOk
        /\ mgr.parsers["amplitude"] = "None" => ~loadEnv.csvOk
        /\ mgr.parsers["insider"] =
              IF loadEnv.insiderOk THEN "InsiderParser" ELSE "None"
        /\ mgr.parsers["gtm_server"] =
              IF loadEnv.gtmServerOk THEN "GTMParser" ELSE "None"
        /\ mgr.parsers["gtm_client"] =
              IF loadEnv.gtmClientOk THEN "GTMParser" ELSE "None"

\* C9 witness: the API client, the CSV and the Insider file all failed to
\* load, and the server-side GTM file, initialised after them, loaded
C9_Witness ==
    /\ mgr.initialized
    /\ mgr.apiExc = "client"
    /\ ~loadEnv.csvOk /\ ~loadEnv.insiderOk /\ loadEnv.gtmServerOk
    /\ mgr.parsers["amplitude"] = "None"
    /\ mgr.parsers["insider"] = "None"
    /\ mgr.parsers["gtm_server"] = "GTMParser"

-----------------------------------------------------------------------------
(* The routes of routes/web.py and routes/api.py over the parser manager.  *)
(* A request is served in one step.  Flask answers a URL that matches no   *)
(* rule through the 404 handler and an exception that leaves a view        *)
(* through the 500 handler.                                                *)

\* the URLs requested: the dashboard, the three JSON endpoints (the GTM one
\* with its container_type), and one that matches no rule
Paths ==
    {"/", "/api/amplitude/events", "/api/insider/events",
     "/api/gtm/server/tags", "/api/gtm/client/tags", "/api/gtm/web/tags",
     "/nonexistent-page"}

\* parser_key = f'gtm_{container_type}'
container_type(path) ==
    CASE path = "/api/gtm/server/tags" -> "server"
      [] path = "/api/gtm/client/tags" -> "client"
      [] path = "/api/gtm/web/tags" -> "web"

\* the view function the URL map selects for a GET, "" when no rule matches
url_map(path) ==
    CASE path = "/" -> "dashboard"
      [] path = "/api/amplitude/events" -> "api_amplitude_events"
      [] path = "/api/insider/events" -> "api_insider_events"
      [] path \in {"/api/gtm/server/tags", "/api/gtm/client/tags",
                   "/api/gtm/web/tags"} -> "api_gtm_tags"
      [] OTHER -> ""

\* get_parser(key): self.parsers.get(key)
get_parser(key) == DictGet(mgr.parsers, key, "None")

always_available(parser) == FALSE

\* if not parser:
not_available(parser) == parser = "None"

\* _ensure_api_data at time t on cache c: the cache it leaves, and whether
\* the refetch raised (get_events or get_categories failed)
ensure_api_data(c, t, ttl, e, fails) ==
    IF is_cache_valid(c, t, ttl) THEN [raised |-> FALSE, cache |-> c, fetched |-> FALSE]
    ELSE IF e.api # "ok" THEN [raised |-> TRUE, cache |-> c, fetched |-> FALSE]
    ELSE [raised |-> FALSE, fetched |-> TRUE,
          cache |-> assign_cache(c,
                       build_cache(t, get_events, categories_by_id(get_categories),
                                   props_loop(get_events, 1, EmptyDict, fails)))]

\* a query method called on what get_parser returned: on None it is an
\* AttributeError; on the API-mode adapter each helper of the method's plan
\* runs _ensure_api_data first; a file-mode adapter answers from memory
RECURSIVE adapter_call(_, _, _, _)
adapter_call(parser, plan, c, fails) ==
    IF parser = "None" THEN [raised |-> TRUE, cache |-> c, fetched |-> FALSE]
    ELSE IF parser # "api" \/ plan = <<>>
    THEN [raised |-> FALSE, cache |-> c, fetched |-> FALSE]
    ELSE LET e1 == ensure_api_data(c, now, cache_ttl, env, fails) IN
         IF e1.raised THEN e1
         ELSE LET rest == adapter_call(parser, Tail(plan), e1.cache, fails) IN
              [rest EXCEPT !.fetched = @ \/ e1.fetched]

not_found_ok(error) == [status |-> 200, body |-> "error.html"]

\* @web_bp.app_errorhandler(404)
not_found(error) == [status |-> 404, body |-> "error.html"]

\* @web_bp.app_errorhandler(500)
internal_error(error) == [status |-> 500, body |-> "error.html"]

\* api_amplitude_events, api_insider_events, api_gtm_tags
json_endpoint(key, method, fails) ==
    LET parser == get_parser(key) IN
    IF not_available(parser)
    THEN [status |-> 404, body |-> "error_json", calls |-> 0, raised |-> FALSE,
          cache |-> cache, fetched |-> FALSE]
    ELSE LET q == adapter_call(parser, Plan(method), cache, fails) IN
         IF q.raised
         THEN [status |-> internal_error("exc").status,
               body |-> internal_error("exc").body, calls |-> 1, raised |-> TRUE,
               cache |-> q.cache, fetched |-> q.fetched]
         ELSE [status |-> 200, body |-> "json", calls |-> 1, raised |-> FALSE,
               cache |-> q.cache, fetched |-> q.fetched]

\* dashboard: get_platform_overview of every adapter that is not None, the
\* Amplitude one first
dashboard(fails) ==
    LET parsers == mgr.parsers     \* get_all_parsers()
        n == Cardinality({k \in ParserKeys : parsers[k] # "None"})
        q == IF parsers["amplitude"] # "None"
             THEN adapter_call(parsers["amplitude"],
                               Plan("get_platform_overview"), cache, fails)
             ELSE [raised |-> FALSE, cache |-> cache, fetched |-> FALSE]
    IN IF q.raised
       THEN [status |-> internal_error("exc").status,
             body |-> internal_error("exc").body, calls |-> 1, raised |-> TRUE,
             cache |-> q.cache, fetched |-> q.fetched]
       ELSE [status |-> 200, body |-> "dashboard.html", calls |-> n,
             raised |-> FALSE, cache |-> q.cache, fetched |-> q.fetched]

\* the view that serves path, or the 404 handler when the URL map has none
dispatch(path, fails) ==
    LET view == url_map(path) IN
    CASE view = "dashboard" -> dashboard(fails)
      [] view = "api_amplitude_events" ->
            json_endpoint("amplitude", "get_events_list", fails)
      [] view = "api_insider_events" ->
            json_endpoint("insider", "get_events_list", fails)
      [] view = "api_gtm_tags" ->
            json_endpoint("gtm_" \o container_type(path), "get_tags_list", fails)
      [] OTHER ->
            [status |-> not_found("NotFound").status,
             body |-> not_found("NotFound").body, calls |-> 0, raised |-> FALSE,
             cache |-> cache, fetched |-> FALSE]

\* the parser key a JSON endpoint looks up
endpoint_key(path) ==
    CASE path = "/api/amplitude/events" -> "amplitude"
      [] path = "/api/insider/events" -> "insider"
      [] path \in {"/api/gtm/server/tags", "/api/gtm/client/tags",
                   "/api/gtm/web/tags"} -> "gtm_" \o container_type(path)
      [] OTHER -> ""

\* the service starts with the API credentials configured
WebEnvs ==
    {e \in Envs : e.api_key = "key" /\ e.secret_key = "secret" /\ e.clientOk}

InitWeb ==
    /\ InitAdapter /\ srvEvents = <<EventNames[1]>>
    /\ req = ReqIdle("https")
    /\ env \in WebEnvs /\ loadEnv = env
    /\ mgr = NoManager /\ ret = "None"
    /\ InitAux

\* one GET request, from URL matching to the response
Serve(path) ==
    /\ mgr.initialized
    /\ \E fails \in SUBSET FetchedNames(get_events) :
          \E r \in {dispatch(path, fails)} :
          /\ (~r.fetched => fails = {})
          /\ resp' = [path |-> path, status |-> r.status, body |-> r.body,
                      calls |-> r.calls, raised |-> r.raised,
                      stale |-> ~is_cache_valid(cache, now, cache_ttl),
                      api |-> env.api, prev |-> resp.status]
          /\ cache' = r.cache
          /\ cacheWr' = IF r.fetched THEN [k \in CacheKeys |-> 1] ELSE cacheWr
    /\ UNCHANGED <<now, cache_ttl, srvEvents, adapter, th, snapMeta, lastBuilt,
                   getVars, mgrVars, data, out>>

\* the parser manager is imported (and may be constructed again later), the
\* environment changes, and requests are served
NextWeb ==
    \/ ParserManagerCall
    \/ \E e \in {AllGood, [env EXCEPT !.api = "events_fail"]} : EnvChange(e)
    \/ \E path \in Paths : Serve(path)

SpecWeb == InitWeb /\ [][NextWeb]_vars

\* C11: a JSON endpoint whose source has no adapter (null, or a GTM
\* container type the manager does not know) answers 404 with an error
\* payload, calls no adapter method and throws nothing.
C11_JsonEndpoint404 ==
    (endpoint_key(resp.path) # ""
       /\ get_parser(endpoint_key(resp.path)) = "None") =>
        /\ resp.status = 404
        /\ resp.body = "error_json"
        /\ resp.calls = 0
        /\ ~resp.raised

\* C11 witness: the GTM endpoint was asked for a container type that is no
\* key of the manager while every known source has an adapter, and the
\* Insider endpoint was asked while the Insider adapter is null
C11_Witness ==
    /\ \/ /\ resp.path = "/api/gtm/web/tags"
          /\ \A k \in ParserKeys : mgr.parsers[k] # "None"
       \/ /\ resp.path = "/api/insider/events"
          /\ mgr.parsers["insider"] = "None"
    /\ resp.status = 404

\* C12: GET / is answered with status 200 in every state of the service:
\* whichever adapters are null, and, with the Amplitude adapter in API
\* mode, whether its cache is fresh or stale and whether the API is up.
C12_DashboardAlways200 ==
    resp.path = "/" => resp.status = 200

\* C13: a request for a URL that matches no rule is answered with status
\* 404, whichever adapters are available and whatever was served before.
C13_UnknownRoute404 ==
    (resp.path # "" /\ url_map(resp.path) = "") => resp.status = 404

\* C13 witness: an unregistered URL is requested right after a request
\* that ended in a 500, while the Insider adapter is null
C13_Witness ==
    /\ resp.path = "/nonexistent-page"
    /\ resp.prev = 500
    /\ mgr.parsers["insider"] = "None"
    /\ mgr.parsers["amplitude"] = "api"
    /\ resp.status = 404

-----------------------------------------------------------------------------
(* The API-mode adapter on reader responses given field by field.  A       *)
(* Python value is a record of its type t and its content (s for text, n   *)
(* for numbers and flags); a dict is a function from the keys it has.      *)

PStr(s) == [t |-> "str", s |-> s, n |-> 0]
PInt(n) == [t |-> "int", s |-> "", n |-> n]
PBool(b) == [t |-> "bool", s |-> "", n |-> IF b THEN 1 ELSE 0]
None == [t |-> "None", s |-> "", n |-> 0]
\* the dict {"name": s}, and the dict {}
NameDict(s) == [t |-> "dict", s |-> s, n |-> 1]
NoNameDict == [t |-> "dict", s |-> "", n |-> 0]

\* bool(v)
Truthy(v) ==
    CASE v.t = "str" -> v.s # ""
      [] v.t = "int" -> v.n # 0
      [] v.t = "bool" -> v.n = 1
      [] v.t = "dict" -> v.n # 0
      [] OTHER -> FALSE

Digits == <<"0", "1", "2", "3", "4", "5", "6", "7", "8", "9">>

\* str(n) for an int n >= 0
RECURSIVE IntToStr(_)
IntToStr(n) ==
    IF n < 10 THEN Digits[n + 1]
    ELSE IntToStr(n \div 10) \o Digits[(n % 10) + 1]

\* str(v)
PyStr(v) ==
    CASE v.t = "str" -> v.s
      [] v.t = "int" -> IntToStr(v.n)
      [] v.t = "bool" -> IF v.n = 1 THEN "True" ELSE "False"
      [] OTHER -> "None"

\* d.get(k) or default
GetOr(d, k, default) ==
    IF k \in DOMAIN d /\ Truthy(d[k]) THEN d[k] ELSE default

\* event records the reader may return: each field present or not
RawEventRecords ==
    {ev \in UNION {[keys -> {PStr("login"), PStr("purchase"), None,
                             NameDict("Onboarding"), NoNameDict, PInt(1), PInt(7),
                             PStr("Growth"), PBool(TRUE), PBool(FALSE), PStr("ana")}] :
                     keys \in SUBSET {"event_type", "category", "is_active", "owner"}} :
        /\ "event_type" \in DOMAIN ev => ev["event_type"] \in {PStr("login"), PStr("purchase")}
        /\ "category" \in DOMAIN ev =>
              ev["category"] \in {None, NameDict("Onboarding"), NoNameDict,
                                  PInt(1), PInt(7), PStr("Growth")}
        /\ "is_active" \in DOMAIN ev => ev["is_active"] \in {PBool(TRUE), PBool(FALSE)}
        /\ "owner" \in DOMAIN ev => ev["owner"] = PStr("ana")}

\* event lists: any one record, or up to max records that have an event
\* type, a category and an activity flag
RawEventLists(max) ==
    {<<>>} \cup {<<ev>> : ev \in RawEventRecords} \cup
    UNION {[1..n -> {ev \in RawEventRecords :
                        /\ DOMAIN ev = {"event_type", "category", "is_active"}
                        /\ ev["category"] \in {PInt(1), NameDict("Onboarding")}}] :
             n \in 2..max}

\* category lists of get_categories: records with id and name, or lacking one
CategoryLists ==
    {<<>>,
     <<[id |-> 1, name |-> "Onboarding"]>>,
     <<[id |-> 1, name |-> "Onboarding"], [id |-> 2, name |-> "Growth"]>>,
     <<[name |-> "Onboarding"]>>,
     <<[id |-> 1]>>,
     <<[id |-> 1, name |-> "Onboarding"], [id |-> 2]>>}

\* property records of get_event_properties: each field present or not
PropertyRecords ==
    {[k \in keys |->
        CASE k = "event_property" -> PStr("plan")
          [] k = "type" -> PStr("string")
          [] k = "is_required" -> PBool(TRUE)
          [] k = "is_array_type" -> PBool(FALSE)] :
       keys \in SUBSET {"event_property", "type", "is_required", "is_array_type"}}

PropertyLists == {<<>>} \cup {<<p>> : p \in PropertyRecords}

\* ev.get("event_type", "")
event_name(ev) ==
    IF "event_type" \in DOMAIN ev THEN ev["event_type"].s ELSE ""

\* lines 85-87: {c["id"]: c["name"] for c in categories_list}; a record
\* without "id" or "name" is a KeyError
build_categories(categories_list) ==
    IF \E j \in 1..Len(categories_list) :
          ~({"id", "name"} \subseteq DOMAIN categories_list[j])
    THEN [raised |-> TRUE, value |-> EmptyDict]
    ELSE [raised |-> FALSE, value |-> categories_by_id(categories_list)]

\* lines 89-99 with the reader returning reader_props for every event
props_by_event(raw_events, reader_props, fails) ==
    [e \in {event_name(raw_events[i]) : i \in 1..Len(raw_events)} \ {""} |->
        IF e \in fails THEN <<>> ELSE reader_props]

\* _fetch_api_data past the validity check, on the reader responses d
fetch_api_data(d, t, fails) ==
    LET cats == build_categories(d.categories) IN
    IF cats.raised THEN [raised |-> TRUE, cache |-> EmptyDict]
    ELSE [raised |-> FALSE,
          cache |-> build_cache(t, d.events, cats.value,
                                props_by_event(d.events, d.props, fails))]

\* lines 127-128: cat = ev.get("category") or {}; its "name" if it is a
\* dict, else str(cat)
api_category(ev, categories) ==
    LET cat == GetOr(ev, "category", NoNameDict) IN
    IF cat.t = "dict" THEN PStr(cat.s) ELSE PStr(PyStr(cat))

\* _api_events_list on the cache c
api_events_list(c) ==
    LET events == DictGet(c, "events", <<>>) IN
    [i \in 1..Len(events) |->
        LET ev == events[i] IN
        [name |-> IF "event_type" \in DOMAIN ev THEN ev["event_type"] ELSE PStr(""),
         display_name |-> IF "display_name" \in DOMAIN ev
                          THEN ev["display_name"] ELSE PStr(""),
         category |-> api_category(ev, DictGet(c, "categories", EmptyDict)),
         owner |-> GetOr(ev, "owner", PStr("")),
         description |-> GetOr(ev, "description", PStr("")),
         activity |-> IF "is_active" \in DOMAIN ev /\ Truthy(ev["is_active"])
                      THEN PStr("ACTIVE") ELSE PStr("DELETED"),
         schema_status |-> PStr(""),
         volume_180_days |-> PInt(0),
         queries_180_days |-> PInt(0),
         first_seen |-> PStr(""),
         last_seen |-> PStr("")]]

\* the record _api_properties_by_event makes of the reader's record p
api_property(p) ==
    [name |-> IF "event_property" \in DOMAIN p THEN p["event_property"] ELSE PStr(""),
     description |-> GetOr(p, "description", PStr("")),
     type |-> GetOr(p, "type", PStr("")),
     required |-> IF "is_required" \in DOMAIN p THEN p["is_required"] ELSE PBool(FALSE),
     is_array |-> IF "is_array_type" \in DOMAIN p
                  THEN p["is_array_type"] ELSE PBool(FALSE),
     schema_status |-> PStr(""),
     first_seen |-> PStr(""),
     last_seen |-> PStr("")]

\* _api_properties_by_event on the cache c
api_properties_by_event(c) ==
    LET pbe == DictGet(c, "properties_by_event", EmptyDict) IN
    [e \in DOMAIN pbe |-> [i \in 1..Len(pbe[e]) |-> api_property(pbe[e][i])]]

NoOut ==
    [pc |-> "new", cache |-> EmptyDict, done |-> {}, events |-> <<>>,
     props |-> EmptyDict]

InitApi ==
    /\ InitAdapter /\ cache_ttl = 0 /\ srvEvents = <<>>
    /\ req = ReqIdle("https")
    /\ env = AllGood /\ mgr = NoManager /\ loadEnv = AllGood /\ ret = "None"
    /\ resp = NoResp
    /\ data \in [events : RawEventLists(MaxRawEvents), categories : CategoryLists,
                 props : PropertyLists]
    /\ out = NoOut

\* a refetch on the reader responses of data
ApiFetch ==
    /\ out.pc = "new"
    /\ \E fails \in SUBSET ({event_name(data.events[i]) :
                                i \in 1..Len(data.events)} \ {""}) :
          \E f \in {fetch_api_data(data, now, fails)} :
             out' = [out EXCEPT !.pc = IF f.raised THEN "raised" ELSE "cached",
                                !.cache = f.cache]
    /\ UNCHANGED <<cacheVars, getVars, mgrVars, resp, data>>

\* get_events_list() on the snapshot
ApiEventsList ==
    /\ out.pc = "cached" /\ "events" \notin out.done
    /\ out' = [out EXCEPT !.done = @ \cup {"events"},
                          !.events = api_events_list(out.cache)]
    /\ UNCHANGED <<cacheVars, getVars, mgrVars, resp, data>>

\* get_properties_by_event() on the snapshot
ApiPropertiesByEvent ==
    /\ out.pc = "cached" /\ "props" \notin out.done
    /\ out' = [out EXCEPT !.done = @ \cup {"props"},
                          !.props = api_properties_by_event(out.cache)]
    /\ UNCHANGED <<cacheVars, getVars, mgrVars, resp, data>>

NextApi ==
    \/ ApiFetch
    \/ ApiEventsList
    \/ ApiPropertiesByEvent

SpecApi == InitApi /\ [][NextApi]_vars

\* C14: the category label of every event get_events_list returns is
\* resolved through the id-to-name mapping of the snapshot: a numeric
\* category found in the mapping is reported by its mapped name.
C14_CategoryResolvedByMapping ==
    "events" \in out.done =>
        \A i \in 1..Len(out.events) :
            LET ev == out.cache["events"][i]
                categories == out.cache["categories"]
            IN ("category" \in DOMAIN ev /\ ev["category"].t = "int"
                  /\ ev["category"].n \in DOMAIN categories)
               => out.events[i].category = PStr(categories[ev["category"].n])

\* C15: no record with a missing field makes a refetch raise.
C15_MissingFieldsTolerated ==
    out.pc # "raised"

-----------------------------------------------------------------------------
(* The file-mode adapter.  _load_csv reads every column as text and turns  *)
(* a missing cell into "", so each cell of self.data is a str.  A cell     *)
(* that is parsed as a number is a sequence of characters.                 *)

Chars == {" ", "0", "7", "-", ","}

Texts(max) == UNION {[1..n -> Chars] : n \in 0..max}

\* str.strip()
RECURSIVE lstrip(_)
lstrip(s) == IF s # <<>> /\ Head(s) = " " THEN lstrip(Tail(s)) ELSE s

RECURSIVE rstrip(_)
rstrip(s) ==
    IF s # <<>> /\ s[Len(s)] = " " THEN rstrip(SubSeq(s, 1, Len(s) - 1)) ELSE s

strip(s) == rstrip(lstrip(s))

IsDigit(c) == \E d \in 1..10 : Digits[d] = c

DigitVal(c) == (CHOOSE d \in 1..10 : Digits[d] = c) - 1

RECURSIVE DigitsVal(_)
DigitsVal(s) ==
    IF s = <<>> THEN 0
    ELSE 10 * DigitsVal(SubSeq(s, 1, Len(s) - 1)) + DigitVal(s[Len(s)])

\* int(text): an optional sign and decimal digits, else ValueError
int(text) ==
    LET t == strip(text)
        signed == t # <<>> /\ t[1] \in {"-", "+"}
        body == IF signed THEN Tail(t) ELSE t
    IN IF body = <<>> \/ \E i \in 1..Len(body) : ~IsDigit(body[i])
       THEN [raised |-> TRUE, value |-> 0]
       ELSE [raised |-> FALSE,
             value |-> IF signed /\ t[1] = "-" THEN 0 - DigitsVal(body)
                       ELSE DigitsVal(body)]

\* lines 279 and 290: vol = str(cell).strip(); int(vol) if vol else 0
parse_count(cell) ==
    LET vol == strip(cell) IN
    IF vol # <<>> THEN int(vol) ELSE [raised |-> FALSE, value |-> 0]

\* a row of self.data, by the columns the adapter reads:
\*   object_type "Object Type", object_name "Object Name",
\*   volume "Event 180 Day Volume", queries "Event 180 Day Queries",
\*   property_name "Event Property Name", property_type "Property Value Type",
\*   property_required "Property Required", property_is_array "Property Is Array"
EventRows(max) ==
    [object_type : {"Event"}, object_name : {"login"},
     volume : Texts(max), queries : {<<>>, <<"7">>, <<",">>},
     property_name : {""}, property_type : {""},
     property_required : {""}, property_is_array : {""}]

PropertyRows ==
    [object_type : {"Event Property"}, object_name : {"", " ", "login", "purchase"},
     volume : {<<>>}, queries : {<<>>},
     property_name : {"plan", "sku"}, property_type : {"string"},
     property_required : {"True"}, property_is_array : {"False"}]

\* the datasets: one event row, or up to MaxCsvRows property rows; with or
\* without the two flag columns in the file
CsvData ==
    [rows : {<<r>> : r \in EventRows(MaxTextLen)} \cup
            UNION {[1..n -> PropertyRows] : n \in 0..MaxCsvRows},
     flag_columns : BOOLEAN]

\* lines 272-276: the rows of events
events_df(rows) ==
    SelectSeq(rows, LAMBDA r : r.object_type = "Event" /\ r.object_name # "")

\* lines 281-295: the dict made of one row of events_df
csv_event(row) ==
    [name |-> PStr(row.object_name),
     display_name |-> PStr(""),
     category |-> PStr(""),
     owner |-> PStr(""),
     description |-> PStr(""),
     activity |-> PStr(""),
     schema_status |-> PStr(""),
     volume_180_days |-> PInt(parse_count(row.volume).value),
     queries_180_days |-> PInt(parse_count(row.queries).value),
     first_seen |-> PStr(""),
     last_seen |-> PStr("")]

\* get_events_list in file mode: int() may raise ValueError
csv_events_list(d) ==
    LET df == events_df(d.rows) IN
    IF \E i \in 1..Len(df) :
          parse_count(df[i].volume).raised \/ parse_count(df[i].queries).raised
    THEN [fn |-> "get_events_list", raised |-> TRUE, result |-> <<>>]
    ELSE [fn |-> "get_events_list", raised |-> FALSE,
          result |-> [i \in 1..Len(df) |-> csv_event(df[i])]]

\* row.get("Property Required", False): the cell, a str, when the file has
\* the column, else the default
flag_cell(d, cell) == IF d.flag_columns THEN PStr(cell) ELSE PBool(FALSE)

\* lines 317-326: the dict made of one row of properties_df
csv_property(d, row) ==
    [name |-> PStr(row.property_name),
     description |-> PStr(""),
     type |-> PStr(row.property_type),
     required |-> flag_cell(d, row.property_required),
     is_array |-> flag_cell(d, row.property_is_array),
     schema_status |-> PStr(""),
     first_seen |-> PStr(""),
     last_seen |-> PStr("")]

\* get_properties_by_event in file mode
csv_properties_by_event(d) ==
    LET df == SelectSeq(d.rows, LAMBDA r : r.property_name # "" /\ r.object_name # "")
        pick(e) == SelectSeq(df, LAMBDA r : r.object_name = e)
    IN [fn |-> "get_properties_by_event", raised |-> FALSE,
        result |-> [e \in {df[i].object_name : i \in 1..Len(df)} |->
                      [i \in 1..Len(pick(e)) |-> csv_property(d, pick(e)[i])]]]

\* a lookup that sees only the entry inserted last, as a grouping of
\* adjacent occurrences does
FindAdjacent(unique, pname) ==
    IF unique # <<>> /\ unique[Len(unique)].name = pname THEN Len(unique) ELSE 0

\* a dict in insertion order is the sequence of its values; Find is the
\* position of the entry named pname, 0 when there is none
Find(unique, pname) ==
    IF \E i \in 1..Len(unique) : unique[i].name = pname
    THEN CHOOSE i \in 1..Len(unique) : unique[i].name = pname
    ELSE 0

\* the entry of a property seen for the first time
new_entry(p) ==
    [name |-> p.name, description |-> p.description, type |-> p.type,
     is_array |-> p.is_array, schema_status |-> p.schema_status,
     first_seen |-> p.first_seen, last_seen |-> p.last_seen, event_count |-> 0]

\* one pass of the loop body on occurrence p: create the entry if needed,
\* fill an empty description or type, and count the occurrence if counted
unique_step(unique, p, counted) ==
    LET u1 == IF Find(unique, p.name) = 0 THEN Append(unique, new_entry(p)) ELSE unique
        k == Find(u1, p.name)
        e1 == u1[k]
        e2 == [e1 EXCEPT
                 !.description = IF ~Truthy(@) /\ Truthy(p.description)
                                 THEN p.description ELSE @,
                 !.type = IF ~Truthy(@) /\ Truthy(p.type) THEN p.type ELSE @,
                 !.event_count = IF counted THEN @ + 1 ELSE @]
    IN [u1 EXCEPT ![k] = e2]

\* the insertion of a sort without reverse=True: stable, ascending
RECURSIVE insert_by_count_ascending(_, _)
insert_by_count_ascending(sorted, x) ==
    IF sorted = <<>> THEN <<x>>
    ELSE IF Head(sorted).event_count <= x.event_count
    THEN <<Head(sorted)>> \o insert_by_count_ascending(Tail(sorted), x)
    ELSE <<x>> \o sorted

\* sorted(values, key=event_count, reverse=True): stable, descending
RECURSIVE insert_by_count(_, _)
insert_by_count(sorted, x) ==
    IF sorted = <<>> THEN <<x>>
    ELSE IF Head(sorted).event_count >= x.event_count
    THEN <<Head(sorted)>> \o insert_by_count(Tail(sorted), x)
    ELSE <<x>> \o sorted

RECURSIVE sorted_by_count(_)
sorted_by_count(values) ==
    IF values = <<>> THEN <<>>
    ELSE insert_by_count(sorted_by_count(SubSeq(values, 1, Len(values) - 1)),
                         values[Len(values)])

\* line 391: row.get("Object Name") and row.get("Object Name").strip()
has_object_name(row) == row.object_name \notin {"", " "}

\* lines 369-392: the loop over properties_df from row i on
RECURSIVE csv_unique_loop(_, _, _, _)
csv_unique_loop(d, df, i, unique) ==
    IF i > Len(df) THEN unique
    ELSE csv_unique_loop(d, df, i + 1,
             unique_step(unique, csv_property(d, df[i]), has_object_name(df[i])))

\* get_unique_properties_list in file mode
csv_unique_properties_list(d) ==
    LET df == SelectSeq(d.rows, LAMBDA r : r.property_name # "") IN
    [fn |-> "get_unique_properties_list", raised |-> FALSE,
     result |-> sorted_by_count(csv_unique_loop(d, df, 1, <<>>))]

\* the occurrences of properties in iteration order: items is
\* props_by_event.items(), a sequence of [event, props] pairs
RECURSIVE occurrences(_)
occurrences(items) ==
    IF items = <<>> THEN <<>>
    ELSE Head(items).props \o occurrences(Tail(items))

\* lines 341-359: the loop over the occurrences from index i on
RECURSIVE api_unique_loop(_, _, _)
api_unique_loop(occ, i, unique) ==
    IF i > Len(occ) THEN unique
    ELSE api_unique_loop(occ, i + 1, unique_step(unique, occ[i], TRUE))

\* get_unique_properties_list in API mode, on props_by_event.items()
api_unique_properties_list(items) ==
    sorted_by_count(api_unique_loop(occurrences(items), 1, <<>>))

\* the property record the Taxonomy API holds for the property of a CSV row
equivalent_property(row) ==
    [event_property |-> PStr(row.property_name),
     type |-> PStr(row.property_type),
     is_required |-> PBool(row.property_required = "True"),
     is_array_type |-> PBool(row.property_is_array = "True")]

\* the event record the Taxonomy API holds for the event of a CSV row
equivalent_event(row) ==
    [event_type |-> PStr(row.object_name), is_active |-> PBool(TRUE)]

\* the key set of a record with, key by key, the type of the value
Shape(rec) ==
    [k \in DOMAIN rec |-> IF k = "event_count" THEN "int" ELSE rec[k].t]

NoResult == [fn |-> "none", raised |-> FALSE, result |-> <<>>]

InitCsv ==
    /\ InitAdapter /\ cache_ttl = 0 /\ srvEvents = <<>>
    /\ req = ReqIdle("https")
    /\ env = AllGood /\ mgr = NoManager /\ loadEnv = AllGood /\ ret = "None"
    /\ resp = NoResp
    /\ data \in CsvData
    /\ out = NoResult

\* get_events_list() on the file-mode adapter
CsvEventsList ==
    /\ out.fn = "none"
    /\ out' = csv_events_list(data)
    /\ UNCHANGED <<cacheVars, getVars, mgrVars, resp, data>>

\* C16: file-mode get_events_list never raises on a volume or query-count
\* cell, and reports the integer 0 for a cell that is blank or non-numeric.
C16_NonNumericCountsAreZero ==
    out.fn = "get_events_list" =>
        /\ ~out.raised
        /\ \A i \in 1..Len(out.result) :
              LET row == events_df(data.rows)[i] IN
              /\ int(row.volume).raised => out.result[i].volume_180_days = PInt(0)
              /\ int(row.queries).raised => out.result[i].queries_180_days = PInt(0)

\* get_properties_by_event() on the file-mode adapter
CsvPropertiesByEvent ==
    /\ out.fn = "none"
    /\ out' = csv_properties_by_event(data)
    /\ UNCHANGED <<cacheVars, getVars, mgrVars, resp, data>>

\* get_unique_properties_list() on the file-mode adapter
CsvUniquePropertiesList ==
    /\ out.fn = "none"
    /\ out' = csv_unique_properties_list(data)
    /\ UNCHANGED <<cacheVars, getVars, mgrVars, resp, data>>

NextCsv ==
    \/ CsvEventsList
    \/ CsvPropertiesByEvent
    \/ CsvUniquePropertiesList

SpecCsv == InitCsv /\ [][NextCsv]_vars

\* C17: the records file mode returns have the same keys and, key by key,
\* the same value types as the records API mode returns for the equivalent
\* dataset (events, properties by event, unique properties).
C17_ModeEquivalence ==
    /\ (out.fn = "get_events_list" /\ ~out.raised) =>
          \A i \in 1..Len(out.result) :
             LET row == events_df(data.rows)[i]
                 c == [events |-> <<equivalent_event(row)>>]
             IN Shape(out.result[i]) = Shape(api_events_list(c)[1])
    /\ out.fn = "get_properties_by_event" =>
          \A e \in DOMAIN out.result : \A i \in 1..Len(out.result[e]) :
             \A row \in PropertyRows :
                Shape(out.result[e][i]) = Shape(api_property(equivalent_property(row)))
    /\ out.fn = "get_unique_properties_list" =>
          \A i \in 1..Len(out.result) :
             \A row \in PropertyRows :
                Shape(out.result[i]) =
                   Shape(api_unique_properties_list(
                            <<[event |-> "login",
                               props |-> <<api_property(equivalent_property(row))>>]>>)[1])

\* the sum of the event_count values of a unique-properties list
RECURSIVE SumCounts(_)
SumCounts(list) ==
    IF list = <<>> THEN 0 ELSE Head(list).event_count + SumCounts(Tail(list))

\* C18: get_unique_properties_list returns exactly one entry per distinct
\* property identifier of the input, each entry's event_count is the
\* number of occurrences of its identifier, and the counts sum to the
\* total number of property occurrences (here in file mode, where an
\* occurrence is a row that names a property).
C18_UniqueReduction ==
    out.fn = "get_unique_properties_list" =>
        LET df == SelectSeq(data.rows, LAMBDA r : r.property_name # "")
            ids == {df[i].property_name : i \in 1..Len(df)}
        IN /\ Len(out.result) = Cardinality(ids)
           /\ \A id \in ids :
                 \E i \in 1..Len(out.result) :
                    /\ out.result[i].name = PStr(id)
                    /\ out.result[i].event_count =
                          Cardinality({j \in 1..Len(df) : df[j].property_name = id})
           /\ SumCounts(out.result) = Len(df)

----------------------------------------------------------------------------
\* get_unique_properties_list in API mode on one fixed snapshot
\* (src/parsers/amplitude_parser.py:338-362)

\* the events of a snapshot, in the order the taxonomy lists them
SnapshotEventNames == <<"login", "purchase", "signup", "logout", "search">>

\* the properties every event may carry
SharedProperties == <<"plan", "sku">>

\* the property only the event e carries
OwnProperty(e) ==
    CASE e = "login" -> "method"
      [] e = "purchase" -> "amount"
      [] e = "signup" -> "referrer"
      [] e = "logout" -> "reason"
      [] OTHER -> "query"

\* the record get_event_properties returns for the property pname
property_record(pname) ==
    [event_property |-> PStr(pname), type |-> PStr("string"),
     is_required |-> PBool(FALSE), is_array_type |-> PBool(FALSE)]

\* the subsequences of seq
RECURSIVE SubSeqs(_)
SubSeqs(seq) ==
    IF seq = <<>> THEN {<<>>}
    ELSE LET rest == SubSeqs(Tail(seq)) IN
         rest \cup {<<Head(seq)>> \o r : r \in rest}

\* the property lists the reader may have stored for the event e: any of
\* the shared properties, then the event's own
EventProps(e) ==
    {[i \in 1..Len(names) |-> property_record(names[i])] :
        names \in {shared \o <<OwnProperty(e)>> : shared \in SubSeqs(SharedProperties)}}

\* cache["properties_by_event"] as its items(), for the first n events
RECURSIVE SnapshotsOf(_)
SnapshotsOf(n) ==
    IF n = 0 THEN {<<>>}
    ELSE {Append(s, [event |-> SnapshotEventNames[n], props |-> ps]) :
             s \in SnapshotsOf(n - 1), ps \in EventProps(SnapshotEventNames[n])}

Snapshots == UNION {SnapshotsOf(n) : n \in 0..MaxSnapshotEvents}

Perms(n) == {f \in [1..n -> 1..n] : \A i, j \in 1..n : f[i] = f[j] => i = j}

Permute(seq, f) == [i \in 1..Len(seq) |-> seq[f[i]]]

\* the snapshot with the properties inside each event in any order
RECURSIVE ReorderedProps(_)
ReorderedProps(items) ==
    IF items = <<>> THEN {<<>>}
    ELSE {<<h>> \o t :
            h \in {[Head(items) EXCEPT !.props = Permute(@, f)] :
                      f \in Perms(Len(Head(items).props))},
            t \in ReorderedProps(Tail(items))}

\* the snapshot with the events, and the properties inside each event, in
\* any order
Orders(items) ==
    {Permute(r, f) : f \in Perms(Len(items)), r \in ReorderedProps(items)}

\* _api_properties_by_event(): items() of the normalised records
api_items(items) ==
    [i \in 1..Len(items) |->
        [event |-> items[i].event,
         props |-> [j \in 1..Len(items[i].props) |-> api_property(items[i].props[j])]]]

\* the (identifier, occurrence count) pairs of a result, as a multiset
Pairs(result) ==
    LET pair(i) == <<result[i].name, result[i].event_count>> IN
    [p \in {pair(i) : i \in 1..Len(result)} |->
        Cardinality({i \in 1..Len(result) : pair(i) = p})]

NoRun == [pc |-> "new", items |-> <<>>, first |-> <<>>, result |-> <<>>]

InitUnique ==
    /\ InitAdapter /\ cache_ttl = 0 /\ srvEvents = <<>>
    /\ req = ReqIdle("https")
    /\ env = AllGood /\ mgr = NoManager /\ loadEnv = AllGood /\ ret = "None"
    /\ resp = NoResp
    /\ data \in Snapshots
    /\ out = NoRun

\* get_unique_properties_list() on the snapshot as stored
UniquePropertiesList ==
    /\ out.pc = "new"
    /\ \E r \in {api_unique_properties_list(api_items(data))} :
          out' = [pc |-> "ran", items |-> data, first |-> r, result |-> r]
    /\ UNCHANGED <<cacheVars, getVars, mgrVars, resp, data>>

\* a second call on the same snapshot
UniquePropertiesListAgain ==
    /\ out.pc = "ran"
    /\ out' = [out EXCEPT !.pc = "again",
                          !.result = api_unique_properties_list(api_items(data))]
    /\ UNCHANGED <<cacheVars, getVars, mgrVars, resp, data>>

\* a call that visits the events and their properties in any order
UniquePropertiesListReordered ==
    /\ out.pc = "ran"
    /\ \E order \in Orders(data) :
          out' = [out EXCEPT !.pc = "reordered", !.items = order,
                             !.result = api_unique_properties_list(api_items(order))]
    /\ UNCHANGED <<cacheVars, getVars, mgrVars, resp, data>>

NextUnique ==
    \/ UniquePropertiesList
    \/ UniquePropertiesListAgain
    \/ UniquePropertiesListReordered

SpecUnique == InitUnique /\ [][NextUnique]_vars

\* C19: for one fixed snapshot, get_unique_properties_list run a second
\* time, or run with the events and the properties inside each event
\* visited in any other order, yields the same multiset of (identifier,
\* occurrence count) pairs as the first run.
C19_OrderIndependent ==
    out.pc \in {"again", "reordered"} => Pairs(out.result) = Pairs(out.first)

\* a run in another order, on a snapshot in which two events share a
\* property, that returns its entries in another order than the first run
C19_Witness ==
    /\ out.pc = "reordered"
    /\ out.items # data
    /\ out.result # out.first
    /\ \E i \in 1..Len(out.result) : out.result[i].event_count >= 2

\* the property identifiers the event item carries
PropNames(item) == {item.props[j].event_property : j \in 1..Len(item.props)}

\* the identifiers all the events of the snapshot carry
SharedNames == {n \in PropNames(data[1]) : \A i \in 1..Len(data) : n \in PropNames(data[i])}

\* a snapshot of 3 events, each carrying the same 2 shared properties plus
\* 1 property no other event carries
ThreeEventsScenario ==
    /\ Len(data) = 3
    /\ \A i \in 1..3 : Len(data[i].props) = 3 /\ Cardinality(PropNames(data[i])) = 3
    /\ Cardinality(SharedNames) = 2
    /\ \A i, j \in 1..3 : i # j => PropNames(data[i]) \cap PropNames(data[j]) = SharedNames

\* the event_count values of a result, in its order
Counts(result) == [i \in 1..Len(result) |-> result[i].event_count]

\* C20: for a snapshot of 3 events, each carrying the same 2 shared
\* properties plus 1 property of its own, get_unique_properties_list
\* reports exactly 5 distinct properties: the 2 shared ones with
\* occurrence count 3, then the 3 own ones with count 1, sorted descending
\* by count, whatever the order the events and properties are visited in.
C20_ThreeEventsFiveProperties ==
    (out.pc # "new" /\ ThreeEventsScenario) =>
        /\ Len(out.result) = 5
        /\ Counts(out.result) = <<3, 3, 1, 1, 1>>
        /\ {out.result[i].name : i \in 1..2} = SharedNames
        /\ {out.result[i].name : i \in 3..5} =
              UNION {PropNames(data[i]) : i \in 1..3} \ SharedNames

\* the scenario's snapshot after a call in another visiting order
C20_Witness ==
    /\ out.pc = "reordered"
    /\ ThreeEventsScenario
    /\ out.items # data
    /\ Len(out.result) = 5

\* C20 as stated: in the same scenario the list holds exactly 4 distinct
\* properties, the 2 shared ones with occurrence count 3 and 2 others with
\* count 1, sorted descending by count.
C20_ThreeEventsFourProperties ==
    (out.pc # "new" /\ ThreeEventsScenario) =>
        /\ Len(out.result) = 4
        /\ Counts(out.result) = <<3, 3, 1, 1>>
        /\ {out.result[i].name : i \in 1..2} = SharedNames

----------------------------------------------------------------------------
\* The label get_platform_overview reports, over the parser manager
\* (src/parsers/amplitude_parser.py:398-420, src/services/parser_manager.py:40-69)

last_updated_live(parser) == "Live"

\* "Live" if self._mode == "api" else "CSV snapshot"
last_updated(parser) == IF parser = "api" THEN "Live" ELSE "CSV snapshot"

\* no overview asked yet
NoOverview ==
    [fn |-> "none", raised |-> FALSE, fetched |-> FALSE, last_updated |-> ""]

InitMode ==
    /\ InitAdapter /\ srvEvents = <<EventNames[1]>>
    /\ req = ReqIdle("https")
    /\ env \in Envs /\ loadEnv = env
    /\ mgr = NoManager /\ ret = "None"
    /\ resp = NoResp /\ data = <<>>
    /\ out = NoOverview

\* get_platform_overview() on the Amplitude adapter the manager holds
PlatformOverview ==
    /\ mgr.initialized
    /\ mgr.parsers["amplitude"] # "None"
    /\ \E fails \in SUBSET FetchedNames(get_events) :
          \E q \in {adapter_call(mgr.parsers["amplitude"],
                                 Plan("get_platform_overview"), cache, fails)} :
          /\ (~q.fetched => fails = {})
          /\ out' = [fn |-> "get_platform_overview", raised |-> q.raised,
                     fetched |-> q.fetched,
                     last_updated |-> IF q.raised THEN ""
                                      ELSE last_updated(mgr.parsers["amplitude"])]
          /\ cache' = q.cache
          /\ cacheWr' = IF q.fetched THEN [k \in CacheKeys |-> 1] ELSE cacheWr
    /\ UNCHANGED <<now, cache_ttl, srvEvents, adapter, th, snapMeta, lastBuilt,
                   getVars, mgrVars, resp, data>>

NextMode ==
    \/ ParserManagerCall
    \/ \E e \in {AllGood, [env EXCEPT !.api = "events_fail"]} : EnvChange(e)
    \/ PlatformOverview

SpecMode == InitMode /\ [][NextMode]_vars

\* API mode was selected at startup with the API key or the secret key absent
CredentialsAbsent ==
    loadEnv.mode = "api" /\ (loadEnv.api_key = "" \/ loadEnv.secret_key = "")

\* C21: when API mode is selected but the API key or the secret key is
\* absent, the manager builds the Amplitude adapter in file mode (from the
\* local CSV, when it loads) without any HTTP call: no API construction is
\* attempted, the cache is never filled and no overview fetches or fails on
\* a fetch; every later get_platform_overview reports last_updated =
\* "CSV snapshot"; and last_updated is "Live" if and only if the adapter
\* was constructed in API mode.
C21_CredentialsAbsentFileMode ==
    /\ (mgr.initialized /\ CredentialsAbsent) =>
          /\ mgr.parsers["amplitude"] = IF loadEnv.csvOk THEN "csv" ELSE "None"
          /\ mgr.apiExc = "none"
          /\ cache = EmptyDict
          /\ ~out.raised /\ ~out.fetched
          /\ out.fn = "get_platform_overview" => out.last_updated = "CSV snapshot"
    /\ (out.fn = "get_platform_overview" /\ ~out.raised) =>
          (out.last_updated = "Live" <=> mgr.parsers["amplitude"] = "api")

\* the overview of an adapter built without the secret key, asked after the
\* credentials have appeared in the configuration
C21_Witness ==
    /\ mgr.initialized
    /\ loadEnv.mode = "api" /\ loadEnv.secret_key = "" /\ loadEnv.api_key = "key"
    /\ env = AllGood
    /\ out.fn = "get_platform_overview"
    /\ out.last_updated = "CSV snapshot"

----------------------------------------------------------------------------
\* AmplitudeAPIClient._get on the response session.get handed back
\* (src/services/amplitude_client.py:79-87)

\* a key the JSON object does not have
Absent == [t |-> "absent", s |-> "", n |-> 0]

\* a JSON array, and the value of a key that is not there
JsonList(items) == [t |-> "list", items |-> items]
NoList == [t |-> "absent", items |-> <<>>]

\* the error objects of an envelope: with a message, or without
ErrorObjects == {[message |-> m] : m \in {Absent, PStr("Invalid event type"), PStr("Not found")}}

\* the envelopes response.json() may give: the success flag, the errors
\* list and the data list, each present or not
Envelopes ==
    [success : {Absent, None, PBool(TRUE), PBool(FALSE), PInt(0)},
     errors : {NoList, JsonList(<<>>)}
                 \cup {JsonList(<<e>>) : e \in ErrorObjects}
                 \cup {JsonList(<<e, [message |-> PStr("Not found")]>>) : e \in ErrorObjects},
     data : {NoList, JsonList(<<>>), JsonList(<<"login">>)}]

\* the responses session.get may return without raising
FinalResponses == [status_code : {200, 201, 404, 500}, body : Envelopes]

\* d.get(key) for a key holding a scalar
JsonGet(value) == IF value = Absent THEN None ELSE value

\* lines 83-85: the exception raised for an envelope whose success flag is
\* falsy
envelope_error(response) ==
    LET body == response.body
        \* body.get("errors", [{"message": "Unknown error"}])
        errors == IF body.errors.t = "absent"
                  THEN <<[message |-> PStr("Unknown error")]>>
                  ELSE body.errors.items
    IN IF errors = <<>>
       THEN \* errors[0] on an empty list
            [kind |-> "IndexError", status_code |-> 0, message |-> "", data |-> <<>>]
       ELSE [kind |-> "AmplitudeAPIError", status_code |-> response.status_code,
             \* errors[0].get("message", "")
             message |-> IF errors[1].message = Absent THEN ""
                         ELSE errors[1].message.s,
             data |-> <<>>]

\* lines 79-87
read_response(response) ==
    IF response.status_code >= 400     \* not response.ok
    THEN [kind |-> "AmplitudeAPIError", status_code |-> response.status_code,
          message |-> "response.text", data |-> <<>>]
    ELSE IF ~Truthy(JsonGet(response.body.success))
    THEN envelope_error(response)
    ELSE [kind |-> "returned", status_code |-> response.status_code, message |-> "",
          \* body.get("data", [])
          data |-> response.body.data.items]

NoReply == [fn |-> "none", kind |-> "", status_code |-> 0, message |-> "", data |-> <<>>]

InitRead ==
    /\ InitAdapter /\ cache_ttl = 0 /\ srvEvents = <<>>
    /\ req = ReqIdle("https")
    /\ env = AllGood /\ mgr = NoManager /\ loadEnv = AllGood /\ ret = "None"
    /\ resp = NoResp
    /\ data \in FinalResponses
    /\ out = NoReply

\* _get from line 79 on, with the final response in hand
ReadResponse ==
    /\ out.fn = "none"
    /\ \E r \in {read_response(data)} :
          out' = [fn |-> "_get", kind |-> r.kind, status_code |-> r.status_code,
                  message |-> r.message, data |-> r.data]
    /\ UNCHANGED <<cacheVars, getVars, mgrVars, resp, data>>

NextRead == ReadResponse

SpecRead == InitRead /\ [][NextRead]_vars

\* C22: when the final response is 2xx and the envelope's success flag is
\* falsy, _get raises AmplitudeAPIError carrying the response status and
\* the first reported error message, or "Unknown error" when no message is
\* reported (errors missing, errors empty, or first error without a
\* message); it returns no data and raises no other kind of exception.
C22_EnvelopeFailure ==
    (out.fn = "_get" /\ data.status_code \in 200..299
       /\ ~Truthy(JsonGet(data.body.success))) =>
        LET errors == data.body.errors.items
            reported == errors # <<>> /\ errors[1].message # Absent
        IN /\ out.kind = "AmplitudeAPIError"
           /\ out.status_code = data.status_code
           /\ out.message = IF reported THEN errors[1].message.s ELSE "Unknown error"

----------------------------------------------------------------------------
\* C23: when a GET receives a 429 response, _get first sleeps for the
\* number of seconds of the Retry-After header (5 when absent) and only
\* then issues the request again, exactly once: while every answer so far
\* was 429, a further request goes out only as that one retry after the one
\* sleep; if the second answer is 429 too (or any non-2xx) no further
\* request is made and AmplitudeAPIError is raised, and a successful
\* envelope is returned.
C23_RateLimitStep ==
    /\ (req.pc = "send" /\ req.contacts >= 1 /\ req.only429) =>
          /\ req.contacts = 1
          /\ req.slept = <<retry_after(req.response)>>
    /\ (req.pc = "raised" /\ req.contacts >= 1 /\ req.only429) =>
          /\ req.contacts = 2
          /\ req.error = "AmplitudeAPIError"
    /\ (req.pc \in {"raised", "returned"} /\ req.attempt = 2) =>
          /\ Len(req.slept) = 1
          /\ req.pc = "returned" <=> (ok(req.response) /\ req.response.success)

----------------------------------------------------------------------------
\* AmplitudeAPIClient.health_check (src/services/amplitude_client.py:118-133)

\* a handler that lets everything but the client's own error type through
except_api_error(error) == error = "AmplitudeAPIError"

\* line 131, except Exception: RetryError, ConnectionError and
\* AmplitudeAPIError all derive from Exception
except_exception(error) ==
    error \in {"AmplitudeAPIError", "RetryError", "ConnectionError"}

\* health_check has not been called
NoHealth ==
    [pc |-> "idle", paths |-> <<>>, value |-> FALSE, raised |-> FALSE,
     logged |-> FALSE, error |-> "none", response |-> NoResponse]

InitHealth ==
    /\ InitAdapter /\ srvEvents = <<>>
    /\ req \in {ReqIdle(scheme) : scheme \in {"https", "http"}}
    /\ env = AllGood /\ mgr = NoManager /\ loadEnv = AllGood /\ ret = "None"
    /\ resp = NoResp /\ data = <<>>
    /\ out = NoHealth

\* health_check() calls get_categories(), which calls
\* _get("/taxonomy/category"): line 67 starts the first session.get
HealthCheck ==
    /\ out.pc = "idle" /\ req.pc = "idle"
    /\ out' = [NoHealth EXCEPT !.pc = "fetching",
                               !.paths = <<"/taxonomy/category">>]
    /\ req' = [ReqIdle(req.scheme) EXCEPT
                 !.pc = "send", !.attempt = 1, !.total = max_retries(req.scheme)]
    /\ UNCHANGED <<cacheVars, mgrVars, resp, data>>

\* inside session.get: the connection fails; the transport tries again
\* while its budget lasts, then raises ConnectionError
ContactFails ==
    /\ req.pc = "send"
    /\ IF req.total > 0
       THEN req' = [req EXCEPT !.total = @ - 1, !.only429 = FALSE]
       ELSE req' = [req EXCEPT !.pc = "raised", !.error = "ConnectionError",
                               !.only429 = FALSE]
    /\ UNCHANGED <<cacheVars, mgrVars, auxVars>>

\* lines 128-133: get_categories returned, or raised into the handler
HealthReturn ==
    /\ out.pc = "fetching"
    /\ req.pc \in {"raised", "returned"}
    /\ out' = [out EXCEPT
                 !.pc = "done",
                 !.value = req.pc = "returned",
                 !.raised = req.pc = "raised" /\ ~except_exception(req.error),
                 !.logged = req.pc = "raised" /\ except_exception(req.error),
                 !.error = req.error,
                 !.response = req.response]
    /\ req' = ReqIdle(req.scheme)
    /\ UNCHANGED <<cacheVars, mgrVars, resp, data>>

NextHealth ==
    \/ HealthCheck
    \/ \E r \in Responses : Contact(r)
    \/ ContactFails
    \/ Handle
    \/ HealthReturn

SpecHealth == InitHealth /\ [][NextHealth]_vars

\* C24: health_check returns True exactly when the category fetch succeeds
\* (a 2xx response with a successful envelope), returns False without
\* raising for every failure of that fetch (transport error, non-2xx,
\* success-false envelope), and requests nothing but the categories.
C24_HealthCheck ==
    out.pc = "done" =>
        /\ ~out.raised
        /\ out.value <=> (out.error = "none" /\ ok(out.response)
                            /\ out.response.status # 0 /\ out.response.success)
        /\ ~out.value => out.logged
        /\ out.paths = <<"/taxonomy/category">>

\* a health check that ended False on a transport failure after the
\* transport's retries
C24_Witness ==
    /\ out.pc = "done"
    /\ ~out.value
    /\ out.error \in {"RetryError", "ConnectionError"}

----------------------------------------------------------------------------
\* some thread is inside AmplitudeParser.__init__ or inside a public query
InCall ==
    \/ th[Ctor].pc \in {"fetch", "store"}
    \/ \E t \in Requests : th[t].pc # "idle"

\* C25: refresh is purely lazy.  A step that replaces the cache entry or
\* makes reader calls is taken by a thread that is inside the adapter's
\* construction or inside a public query call, at its _fetch_api_data; and
\* while no construction or query is under way, the cache entry stays as
\* it is and no reader call is made however much time passes, including
\* past the TTL.
C25_LazyRefresh ==
    [][/\ (cache' # cache \/ \E t \in Threads : th'[t].calls > th[t].calls) =>
              \E t \in Threads : th[t].pc \in {"fetch", "store"}
       /\ (~InCall /\ now' # now) =>
              (cache' = cache /\ \A t \in Threads : th'[t].calls = th[t].calls)]_vars

\* the entry of a constructed adapter has outlived its TTL and no query is
\* under way: nothing has refreshed it
C25_Witness ==
    /\ adapter = "ready"
    /\ ~InCall
    /\ "_timestamp" \in DOMAIN cache
    /\ cache_ttl > 0
    /\ now - cache["_timestamp"] > cache_ttl
    /\ cache = lastBuilt

----------------------------------------------------------------------------
\* AmplitudeParser.__init__ and the mode it leaves
\* (src/parsers/amplitude_parser.py:34-52)

\* the arguments of the constructor, each None or given
CtorArgs == [file_path : {"None", "amplitude.csv"}, api_client : {"None", "client"}]

\* a constructor that looks at file_path first
mode_file_first(args) ==
    IF args.file_path # "None" THEN "csv"
    ELSE IF args.api_client # "None" THEN "api"
    ELSE "ValueError"

\* lines 40-52: the branch __init__ takes
mode_of(args) ==
    IF args.api_client # "None" THEN "api"
    ELSE IF args.file_path # "None" THEN "csv"
    ELSE "ValueError"

\* the world the constructor runs in: the Taxonomy API and the CSV file
CtorEnvs ==
    {e \in Envs : /\ e.mode = "api" /\ e.api_key = "key" /\ e.secret_key = "secret"
                  /\ e.clientOk /\ e.insiderOk /\ e.gtmServerOk /\ e.gtmClientOk}

\* no adapter object yet
NoObject ==
    [pc |-> "new", mode |-> "unset", error |-> "none", last |-> "none",
     raised |-> FALSE]

InitCtor ==
    /\ InitAdapter /\ srvEvents = <<EventNames[1]>>
    /\ req = ReqIdle("https")
    /\ env \in CtorEnvs /\ loadEnv = env
    /\ mgr = NoManager /\ ret = "None"
    /\ resp = NoResp
    /\ data \in CtorArgs
    /\ out = NoObject

\* AmplitudeParser(file_path=..., api_client=..., cache_ttl=...)
AdapterInit ==
    /\ out.pc = "new"
    /\ \E fails \in SUBSET FetchedNames(get_events) :
         LET m == mode_of(data)
             a == api_parser(env, now, cache_ttl, fails)
         IN CASE m = "ValueError" ->
                   /\ out' = [out EXCEPT !.pc = "failed", !.error = "ValueError"]
                   /\ UNCHANGED <<cache, cacheWr>>
              [] m = "api" ->
                   /\ (a.cache = EmptyDict => fails = {})
                   /\ out' = IF a.exc = "none"
                             THEN [out EXCEPT !.pc = "ready", !.mode = "api"]
                             ELSE [out EXCEPT !.pc = "failed", !.error = "fetch"]
                   /\ cache' = a.cache
                   /\ cacheWr' = [k \in DOMAIN a.cache |-> Ctor]
              [] m = "csv" ->
                   /\ fails = {}
                   /\ out' = IF env.csvOk
                             THEN [out EXCEPT !.pc = "ready", !.mode = "csv"]
                             ELSE [out EXCEPT !.pc = "failed", !.error = "load"]
                   /\ UNCHANGED <<cache, cacheWr>>
    /\ UNCHANGED <<now, cache_ttl, srvEvents, adapter, th, snapMeta, lastBuilt,
                   getVars, mgrVars, resp, data>>

\* a public query method on the constructed adapter
AdapterQuery(m) ==
    /\ out.pc = "ready"
    /\ \E fails \in SUBSET FetchedNames(get_events) :
          \E q \in {adapter_call(out.mode, Plan(m), cache, fails)} :
          /\ (~q.fetched => fails = {})
          /\ out' = [out EXCEPT !.last = m, !.raised = q.raised]
          /\ cache' = q.cache
          /\ cacheWr' = IF q.fetched THEN [k \in CacheKeys |-> 1] ELSE cacheWr
    /\ UNCHANGED <<now, cache_ttl, srvEvents, adapter, th, snapMeta, lastBuilt,
                   getVars, mgrVars, resp, data>>

NextCtor ==
    \/ AdapterInit
    \/ \E m \in Methods : AdapterQuery(m)
    \/ Tick

SpecCtor == InitCtor /\ [][NextCtor]_vars

\* C26: an adapter is in exactly one of the two modes, the one chosen at
\* construction: API mode when an API client is given (even with a file
\* path), file mode when only a file path is given; with neither the
\* construction fails with ValueError; and whatever is called on the
\* adapter afterwards, its mode stays the one it was constructed with.
C26_OneModeFixedAtConstruction ==
    /\ out.pc = "ready" =>
          /\ out.mode \in {"api", "csv"}
          /\ out.mode = "api" <=> data.api_client # "None"
          /\ out.mode = "csv" <=> (data.api_client = "None" /\ data.file_path # "None")
    /\ (data.api_client = "None" /\ data.file_path = "None" /\ out.pc # "new") =>
          (out.pc = "failed" /\ out.error = "ValueError")
    /\ out.error = "ValueError" =>
          (data.api_client = "None" /\ data.file_path = "None")

\* an adapter built with both a client and a file path, after a query that
\* refetched under a stale cache at a later time
C26_Witness ==
    /\ out.pc = "ready"
    /\ data.api_client # "None" /\ data.file_path # "None"
    /\ out.mode = "api"
    /\ out.last = "get_platform_overview"
    /\ now > StartTime
    /\ cache # EmptyDict /\ cache["_timestamp"] > StartTime

----------------------------------------------------------------------------
\* A query on a constructed API-mode adapter, with the cache entry it found
\* (src/parsers/amplitude_parser.py:77-126)

\* no query made yet
NoQuery == [method |-> "none", cache0 |-> EmptyDict]

InitRefetch ==
    /\ InitAdapter /\ srvEvents \in EventLists(MaxEvents)
    /\ req = ReqIdle("https")
    /\ env = AllGood /\ mgr = NoManager /\ loadEnv = AllGood /\ ret = "None"
    /\ resp = NoResp /\ data = <<>>
    /\ out = NoQuery

\* a public query method is called; self._cache is cache0 at that moment
QueryCall(m) ==
    /\ adapter = "ready"
    /\ th[1].pc = "idle"
    /\ th' = [th EXCEPT ![1] = [Idle EXCEPT !.pc = "ensure", !.plan = Plan(m)]]
    /\ out' = [method |-> m, cache0 |-> cache]
    /\ UNCHANGED <<now, cache_ttl, srvEvents, adapter, cache,
                   cacheWr, snapMeta, lastBuilt>>
    /\ UNCHANGED <<getVars, mgrVars, resp, data>>

NextRefetch ==
    \/ Tick
    \/ Construct
    \/ Fetch(Ctor)
    \/ Store(Ctor)
    \/ \E m \in Methods : QueryCall(m)
    \/ Ensure(1)
    \/ Fetch(1)
    \/ Store(1)
    \/ Read(1)
    \/ Return(1)

SpecRefetch == InitRefetch /\ [][NextRefetch]_vars

\* C27: when get_events or get_categories raises during a refetch that a
\* query on a stale cache triggered, the exception leaves the public query
\* method with the cache entry (snapshot and timestamp) exactly as it was
\* before the query, so the cache is still stale for the next query.
C27_FailedRefetchLeavesCache ==
    (th[1].pc = "raised" /\ th[1].stale0 = "stale") =>
        /\ cache = out.cache0
        /\ ~is_cache_valid(cache, now, cache_ttl)

----------------------------------------------------------------------------
\* C28: every result of get_platform_overview in API mode is computed from
\* one single snapshot: the cache entry its events helper read and the one
\* its properties helper read are the same entry (same timestamp, same
\* writer), even when the TTL expires between the two internal summary
\* calls.
C28_OverviewOneSnapshot ==
    \A t \in Requests :
        (Finished(t) /\ Len(th[t].seen) = 2) =>
            /\ th[t].seen[1].ts = th[t].seen[2].ts
            /\ th[t].seen[1].wr = th[t].seen[2].wr

----------------------------------------------------------------------------
\* Concurrent refetches, with the time each request obtained its reader
\* responses (src/parsers/amplitude_parser.py:77-116)

\* nothing fetched by a request yet: obtained[t] is the time request t got
\* the responses it holds, in_cache the time the responses of the cache
\* entry were obtained (0: by the constructor)
NoOrder ==
    [obtained |-> [t \in Requests |-> 0], in_cache |-> 0,
     backward |-> FALSE, ts_decreased |-> FALSE]

InitOrder ==
    /\ InitAdapter /\ srvEvents = <<EventNames[1]>>
    /\ req = ReqIdle("https")
    /\ env = AllGood /\ mgr = NoManager /\ loadEnv = AllGood /\ ret = "None"
    /\ resp = NoResp /\ data = <<>>
    /\ out = NoOrder

\* _fetch_api_data of a request, lines 79-99: the reader is called now
FetchAt(t) ==
    /\ th[t].pc = "fetch"
    /\ IF is_cache_valid(cache, now, cache_ttl)
       THEN /\ th' = [th EXCEPT ![t] = [@ EXCEPT !.pc = AfterFetch(t)]]
            /\ UNCHANGED out
       ELSE \/ \E fails \in SUBSET FetchedNames(get_events) :
                 /\ th' = [th EXCEPT ![t] = [@ EXCEPT
                              !.pc = "store",
                              !.raced = @ \/ \E u \in Requests \ {t} :
                                                  th[u].pc = "store",
                              !.refetches = @ + 1,
                              !.calls = @ + 2 + Cardinality(FetchedNames(get_events)),
                              !.raw_events = get_events,
                              !.categories = categories_by_id(get_categories),
                              !.props = props_loop(get_events, 1, EmptyDict, fails),
                              !.failed = fails]]
                 /\ out' = [out EXCEPT !.obtained[t] = now]
            \/ \E made \in {1, 2} :
                 /\ th' = [th EXCEPT ![t] = [@ EXCEPT
                              !.pc = "raised",
                              !.refetches = @ + 1, !.calls = @ + made]]
                 /\ UNCHANGED out
    /\ UNCHANGED <<now, cache_ttl, srvEvents, adapter, cache, cacheWr, snapMeta,
                   lastBuilt>>
    /\ UNCHANGED <<getVars, mgrVars, resp, data>>

\* lines 101-106 of a request: self._cache = {"_timestamp": time.time(), ...}
StoreAt(t) ==
    /\ th[t].pc = "store"
    /\ LET built == build_cache(now, th[t].raw_events, th[t].categories,
                                th[t].props)
       IN /\ cache' = assign_cache(cache, built)
          /\ cacheWr' = assign_cache(cacheWr, [k \in CacheKeys |-> t])
          /\ lastBuilt' = built
          /\ out' = [out EXCEPT
                       !.in_cache = out.obtained[t],
                       !.backward = @ \/ out.obtained[t] < out.in_cache,
                       !.ts_decreased = @ \/ built["_timestamp"] <
                                                  DictGet(cache, "_timestamp", 0)]
    /\ snapMeta' = [by |-> t, failed |-> th[t].failed]
    /\ th' = [th EXCEPT ![t] = [@ EXCEPT
                !.pc = AfterFetch(t), !.raw_events = <<>>,
                !.categories = EmptyDict, !.props = EmptyDict, !.failed = {}]]
    /\ UNCHANGED <<now, cache_ttl, srvEvents, adapter>>
    /\ UNCHANGED <<getVars, mgrVars, resp, data>>

NextOrder ==
    \/ Tick
    \/ Construct
    \/ Fetch(Ctor)
    \/ Store(Ctor)
    \/ \E t \in Requests : CallQuery(t, "get_events_list")
    \/ \E t \in Requests : Ensure(t)
    \/ \E t \in Requests : FetchAt(t)
    \/ \E t \in Requests : StoreAt(t)
    \/ \E t \in Requests : Read(t)
    \/ \E t \in Requests : Return(t)

SpecOrder == InitOrder /\ [][NextOrder]_vars

\* C29: under concurrent refetches the cache never goes backward: a
\* snapshot built from reader responses obtained later is never replaced
\* by one built from responses obtained earlier, and the cache timestamp
\* never decreases from one write to the next.
C29_CacheNeverGoesBackward ==
    ~out.backward /\ ~out.ts_decreased

----------------------------------------------------------------------------
\* get_events_summary and get_platform_overview in API mode
\* (src/parsers/amplitude_parser.py:178-192, 216-237, 407-420)

\* Counter(values): each value present, with the number of its occurrences
Counter(values) ==
    [v \in {values[i] : i \in 1..Len(values)} |->
        Cardinality({i \in 1..Len(values) : values[i] = v})]

\* a total that leaves out the events without a name
total_named_events(events) ==
    Cardinality({i \in 1..Len(events) : Truthy(events[i].name)})

\* "total_events": len(events)
total_events(events) == Len(events)

\* get_events_summary on the normalised events
events_summary(events) ==
    [total_events |-> total_events(events),
     activity_status |-> Counter([i \in 1..Len(events) |-> events[i].activity.s]),
     categories |-> Counter(SelectSeq([i \in 1..Len(events) |-> events[i].category.s],
                                      LAMBDA c : c # ""))]

\* all_props: the property records of every event, one after the other
all_props(pbe) ==
    {<<e, i>> : e \in DOMAIN pbe, i \in 1..3} \cap
    UNION {{<<e, i>> : i \in 1..Len(pbe[e])} : e \in DOMAIN pbe}

\* get_properties_summary on the normalised properties
properties_summary(pbe) ==
    [total_properties |-> Cardinality(all_props(pbe)),
     unique_properties |-> Cardinality({pbe[o[1]][o[2]].name : o \in all_props(pbe)})]

\* get_platform_overview on the snapshot c
platform_overview(c) ==
    LET es == events_summary(api_events_list(c))
        ps == properties_summary(api_properties_by_event(c))
    IN [platform |-> "Amplitude",
        total_events |-> es.total_events,
        total_properties |-> ps.total_properties,
        unique_properties |-> ps.unique_properties,
        active_events |-> DictGet(es.activity_status, "ACTIVE", 0),
        deleted_events |-> DictGet(es.activity_status, "DELETED", 0),
        categories_count |-> Cardinality(DOMAIN es.categories),
        last_updated |-> last_updated("api")]

\* no overview computed
NoFigures ==
    [platform |-> "", total_events |-> 0, total_properties |-> 0,
     unique_properties |-> 0, active_events |-> 0, deleted_events |-> 0,
     categories_count |-> 0, last_updated |-> ""]

InitOverview ==
    /\ InitAdapter /\ cache_ttl = 0 /\ srvEvents = <<>>
    /\ req = ReqIdle("https")
    /\ env = AllGood /\ mgr = NoManager /\ loadEnv = AllGood /\ ret = "None"
    /\ resp = NoResp
    /\ data \in [events : RawEventLists(MaxRawEvents),
                 categories : {<<>>, <<[id |-> 1, name |-> "Onboarding"]>>},
                 props : PropertyLists]
    /\ out = [pc |-> "new", cache |-> EmptyDict, overview |-> NoFigures]

\* get_platform_overview() on the snapshot
ApiPlatformOverview ==
    /\ out.pc = "cached"
    /\ out' = [out EXCEPT !.pc = "answered", !.overview = platform_overview(out.cache)]
    /\ UNCHANGED <<cacheVars, getVars, mgrVars, resp, data>>

NextOverview ==
    \/ ApiFetch
    \/ ApiPlatformOverview

SpecOverview == InitOverview /\ [][NextOverview]_vars

\* C30: in API mode, for every snapshot, each event (one whose is_active
\* flag is missing included) counts as exactly one of ACTIVE or DELETED:
\* get_platform_overview reports active_events + deleted_events =
\* total_events, and total_events is the number of event records the
\* events fetch returned.
C30_ActivityPartition ==
    out.pc = "answered" =>
        /\ out.overview.active_events + out.overview.deleted_events =
              out.overview.total_events
        /\ out.overview.total_events = Len(data.events)
        /\ out.overview.active_events =
              Cardinality({i \in 1..Len(data.events) :
                              /\ "is_active" \in DOMAIN data.events[i]
                              /\ data.events[i]["is_active"] = PBool(TRUE)})

\* the overview of a snapshot whose only event has neither an is_active
\* flag nor an event type
C30_Witness ==
    /\ out.pc = "answered"
    /\ Len(data.events) = 1
    /\ DOMAIN data.events[1] \cap {"is_active", "event_type"} = {}
    /\ out.overview.deleted_events = 1

====
